---------------------------- MODULE Spec2Model ----------------------------
(***************************************************************************)
(* Model of the Obsidian GitLab Issues plugin: the create-issue command    *)
(* (createIssueFromActiveFile / createIssueWithProgress), the project      *)
(* picker's select operation, and the pure text functions of lib/utils.ts  *)
(* (buildUpdatedFrontmatter, transformMarkdownForGitLab).                   *)
(*                                                                         *)
(* Text is modelled as a sequence of one-character strings, so that the    *)
(* regular expressions of the source are computed character by character.  *)
(***************************************************************************)
EXTENDS Integers, Sequences, FiniteSets, TLC

VARIABLES
    settings,        \* plugin.settings (the fields the command reads)
    vault,           \* file name -> text of the markdown files
    statusBarItems,  \* runs whose status bar item is displayed
    run,             \* per triggered command: position, picker, locals, history
    ed,              \* harness of the pure text functions: input, url, output
    pk,              \* one ProjectPickerModal instance, its timers and its history
    rc,              \* one call of a remote-client function of lib/utils.ts
    st               \* the settings tab and the stored settings record

vars == <<settings, vault, statusBarItems, run, ed, pk, rc, st>>

(***************************************************************************)
(* Bounds                                                                  *)
(***************************************************************************)
NumRuns == 2          \* command invocations that may overlap
NumLiveRuns == 1      \* of these, the invocations triggered under LiveSpec
MaxDocLines == 4      \* lines of an input text of the pure-function harness
MaxSelectCalls == 2   \* selectProject() calls on one picker instance
MaxKeys == 2          \* changes of the picker's query
MaxRequests == 102    \* page requests of one fetchUserProjects call that are followed
MaxToggles == 1       \* clicks on a favorite star
MaxMutations == 2
MaxPieces == 3

Runs == 1..NumRuns
LiveRuns == 1..NumLiveRuns

(***************************************************************************)
(* Characters and text helpers                                             *)
(***************************************************************************)
NL == "\n"
QUOTE == "\""
BACKTICK == "bq"     \* the grave accent character, one character of text

Min(S) == CHOOSE x \in S : \A y \in S : x <= y

\* p occurs in s at position i (1-based)
StartsWithAt(s, p, i) ==
    /\ i >= 1
    /\ i + Len(p) - 1 <= Len(s)
    /\ \A k \in 1..Len(p) : s[i + k - 1] = p[k]

\* String.prototype.endsWith
EndsWith(s, p) == Len(p) <= Len(s) /\ StartsWithAt(s, p, Len(s) - Len(p) + 1)

\* first position >= from at which p occurs in s, 0 if none
IndexOf(s, p, from) ==
    LET I == {i \in from..(Len(s) - Len(p) + 1) : StartsWithAt(s, p, i)}
    IN  IF I = {} THEN 0 ELSE Min(I)

\* s from position i to the end (String.prototype.slice(i-1))
Drop(s, i) == SubSeq(s, i, Len(s))

\* white space of String.prototype.trim, as far as the alphabet has it
IsSpace(c) == c \in {" ", NL, "\t", "\r"}

\* line terminators: what "." does not match and "$" (flag m) stops at
IsLineTerminator(c) == c \in {NL, "\r"}

\* String.prototype.trimStart
Trim_StartOnly(s) ==
    LET I == {i \in 1..Len(s) : ~IsSpace(s[i])}
    IN  IF I = {} THEN <<>> ELSE SubSeq(s, Min(I), Len(s))

\* String.prototype.trim
Trim(s) ==
    LET I == {i \in 1..Len(s) : ~IsSpace(s[i])}
    IN  IF I = {} THEN <<>>
        ELSE SubSeq(s, Min(I), CHOOSE j \in I : \A k \in I : k <= j)

\* isNonEmptyString without the trim: a token of white space passes
isNonEmptyString_NoTrim(value) == Len(value) > 0

\* lib/utils.ts isNonEmptyString
isNonEmptyString(value) == Len(Trim(value)) > 0

(***************************************************************************)
(* lib/utils.ts buildUpdatedFrontmatter                                    *)
(***************************************************************************)
Dash3 == <<"-", "-", "-">>
FmOpen == Dash3 \o <<NL>>          \* "---\n" at the start of the pattern
FmClose == <<NL>> \o Dash3         \* "\n---" ending the pattern
IssueKey == <<"g","i","t","l","a","b","_","i","s","s","u","e","_","u","r","l",":">>

\* `gitlab_issue_url: "${issueUrl}"`
IssueLine(issueUrl) == IssueKey \o <<" ", QUOTE>> \o issueUrl \o <<QUOTE>>

\* content.match(/^(---\n[\s\S]*?)\n---/): position of the "\n---" that ends
\* the lazy match, 0 when the pattern does not match.  The group holds
\* "---\n" and the shortest text after it, so the closing "\n" is at 5 or later.
frontmatterMatch(content) ==
    IF StartsWithAt(content, FmOpen, 1)
    THEN IndexOf(content, FmClose, Len(FmOpen) + 1)
    ELSE 0

\* The replacement text of String.prototype.replace(regExp, string): "$$" is a
\* dollar sign, "$&" the matched text, "$" with a grave accent the text before
\* the match, "$'" the text after it; the pattern has no capture group, so
\* every other "$" stands for itself
RECURSIVE GetSubstitution(_, _, _, _)
GetSubstitution(repl, matched, before, after) ==
    IF repl = <<>> THEN <<>>
    ELSE IF repl[1] = "$" /\ Len(repl) >= 2 /\ repl[2] \in {"$", "&", BACKTICK, "'"}
    THEN (CASE repl[2] = "$" -> <<"$">>
            [] repl[2] = "&" -> matched
            [] repl[2] = BACKTICK -> before
            [] OTHER -> after)
         \o GetSubstitution(Drop(repl, 3), matched, before, after)
    ELSE <<repl[1]>> \o GetSubstitution(Tail(repl), matched, before, after)

\* existingFrontmatter.replace(/gitlab_issue_url:.*$/m, line): the first
\* occurrence of the key through the end of its line is replaced
ReplaceIssueLine(fm, line) ==
    LET k == IndexOf(fm, IssueKey, 1)
        T == {i \in (k + Len(IssueKey))..Len(fm) : IsLineTerminator(fm[i])}
        e == IF T = {} THEN Len(fm) + 1 ELSE Min(T)
    IN  SubSeq(fm, 1, k - 1)
        \o GetSubstitution(line, SubSeq(fm, k, e - 1), SubSeq(fm, 1, k - 1), Drop(fm, e))
        \o Drop(fm, e)

buildUpdatedFrontmatter(content, issueUrl) ==
    LET m == frontmatterMatch(content)
    IN  IF m = 0
        THEN FmOpen \o IssueLine(issueUrl) \o FmClose \o <<NL>> \o content
        ELSE LET existingFrontmatter == SubSeq(content, 1, m - 1)
                 afterFrontmatter == Drop(content, m + Len(FmClose))
                 updatedFrontmatter ==
                     IF IndexOf(existingFrontmatter, IssueKey, 1) # 0
                     THEN ReplaceIssueLine(existingFrontmatter, IssueLine(issueUrl))
                     ELSE existingFrontmatter \o <<NL>> \o IssueLine(issueUrl)
             IN  updatedFrontmatter \o FmClose \o afterFrontmatter

(***************************************************************************)
(* lib/utils.ts stripFrontmatter, transformMarkdownForGitLab               *)
(***************************************************************************)
\* content.replace(/^---[\s\S]*?---\n?/, '')
stripFrontmatter(content) ==
    IF ~StartsWithAt(content, Dash3, 1) THEN content
    ELSE LET j == IndexOf(content, Dash3, Len(Dash3) + 1)
         IN  IF j = 0 THEN content
             ELSE LET rest == Drop(content, j + Len(Dash3))
                  IN  IF Len(rest) > 0 /\ rest[1] = NL THEN Drop(rest, 2) ELSE rest

\* [a-zA-Z0-9_-]
TagChars ==
    {"a","b","c","d","e","f","g","h","i","j","k","l","m","n","o","p","q","r",
     "s","t","u","v","w","x","y","z","A","B","C","D","E","F","G","H","I","J",
     "K","L","M","N","O","P","Q","R","S","T","U","V","W","X","Y","Z",
     "0","1","2","3","4","5","6","7","8","9","_","-"}

\* length of the longest run of characters of s, from position i, that are
\* not in Stop (a greedy character class)
RunLen(s, i, Stop) ==
    LET B == {j \in i..Len(s) : s[j] \in Stop}
    IN  IF i > Len(s) THEN 0
        ELSE IF B = {} THEN Len(s) - i + 1 ELSE Min(B) - i

\* the characters of s that are no tag characters
NonTagChars(s) == {s[j] : j \in 1..Len(s)} \ TagChars

\* transformed.replace(/\[\[([^\]]+)\]\]/g, '$1'), scanning from position i
RECURSIVE ReplaceWikilinks(_, _)
ReplaceWikilinks(s, i) ==
    IF i > Len(s) THEN <<>>
    ELSE LET n == RunLen(s, i + 2, {"]"})
             hit == /\ StartsWithAt(s, <<"[", "[">>, i)
                    /\ n >= 1
                    /\ StartsWithAt(s, <<"]", "]">>, i + 2 + n)
         IN  IF hit
             THEN SubSeq(s, i + 2, i + 1 + n) \o ReplaceWikilinks(s, i + 4 + n)
             ELSE <<s[i]>> \o ReplaceWikilinks(s, i + 1)

\* transformed.replace(/#([a-zA-Z0-9_-]+)/g, BACKTICK #$1 BACKTICK), scanning from position i
RECURSIVE WrapTags(_, _)
WrapTags(s, i) ==
    IF i > Len(s) THEN <<>>
    ELSE LET n == RunLen(s, i + 1, NonTagChars(s))
         IN  IF s[i] = "#" /\ n >= 1
             THEN <<BACKTICK>> \o SubSeq(s, i, i + n) \o <<BACKTICK>> \o WrapTags(s, i + 1 + n)
             ELSE <<s[i]>> \o WrapTags(s, i + 1)

\* 'Created from Obsidian note (content was empty)'
EmptyContentText ==
    <<"C","r","e","a","t","e","d"," ","f","r","o","m"," ","O","b","s","i","d",
      "i","a","n"," ","n","o","t","e"," ","(","c","o","n","t","e","n","t"," ",
      "w","a","s"," ","e","m","p","t","y",")">>

\* transformMarkdownForGitLab without the substitution for an empty result
transformMarkdownForGitLab_NoPlaceholder(content) ==
    Trim(WrapTags(ReplaceWikilinks(stripFrontmatter(content), 1), 1))

transformMarkdownForGitLab(content) ==
    LET stripped == stripFrontmatter(content)
        links == ReplaceWikilinks(stripped, 1)
        tags == WrapTags(links, 1)
        transformed == Trim(tags)
    IN  IF transformed = <<>> THEN EmptyContentText ELSE transformed

(***************************************************************************)
(* The host: active file, vault, remote service                            *)
(***************************************************************************)
\* what app.workspace.getActiveFile() may give: no file, a markdown note, a
\* markdown file whose basename is blank, a file of another type; or it throws
NoFile == [kind |-> "none", name |-> "none", path |-> <<>>, basename |-> <<>>]
NoteFile == [kind |-> "file", name |-> "note",
             path |-> <<"n", ".", "m", "d">>, basename |-> <<"n">>]
BlankFile == [kind |-> "file", name |-> "blank",
              path |-> <<" ", ".", "m", "d">>, basename |-> <<" ">>]
ImageFile == [kind |-> "file", name |-> "image",
              path |-> <<"i", ".", "p", "n", "g">>, basename |-> <<"i">>]
ThrowingHost == [kind |-> "throws", name |-> "none", path |-> <<>>, basename |-> <<>>]
ActiveFiles == {NoFile, NoteFile, BlankFile, ImageFile, ThrowingHost}
MdNames == {"note", "blank"}
MdSuffix == <<".", "m", "d">>

\* settings.token: absent, white space only, set
Tokens == {<<>>, <<" ">>, <<"t">>}

\* texts of the note at the start: a tag and no metadata block, a metadata
\* block and nothing else
DocPlain == <<"#", "b">>
DocBlockOnly == FmOpen \o <<"a", NL>> \o Dash3 \o <<NL>>
InitDocs == {DocPlain, DocBlockOnly}

\* outcomes of the POST: a status that is not 2xx, a transport failure, the
\* 30 s signal firing (as AbortError or as TimeoutError, by platform), a 2xx
\* body without web_url, a 2xx body with web_url
CreateResponses ==
    {"401", "403", "404", "500", "422", "network", "abort", "timeout", "noUrl", "ok"}
\* the outcomes in which the service has created the issue
Created(resp) == resp \in {"noUrl", "ok"}

DigitChars == <<"1", "2", "3", "4", "5", "6", "7", "8", "9">>
\* the web_url the service gives the issue created for run r
IssueUrl(r) == <<"h", "/", DigitChars[r]>>

\* issueResponse.web_url: empty (undefined) unless the 2xx body holds it
ResponseUrl(resp, r) == IF resp = "ok" THEN IssueUrl(r) ELSE <<>>

\* the projects the token's principal is a member of, in the service's order:
\* what List Projects answers, and what a search (membership=true) can find
ProjectList == <<42>>
Projects == {ProjectList[i] : i \in 1..Len(ProjectList)}

\* a second token, whose principal is a member of two projects
TokenOfTwo == <<"m">>
MemberList(token) == IF token = TokenOfTwo THEN <<42, 7>> ELSE ProjectList
MemberSet(token) == {MemberList(token)[i] : i \in 1..Len(MemberList(token))}

(***************************************************************************)
(* State of one triggered command                                          *)
(***************************************************************************)
NoCache == [isNull |-> TRUE, list |-> <<>>]

IdleRun ==
    [pc |-> "idle",
     token |-> <<>>,               \* settings.token as validated
     file |-> NoFile,              \* activeFile
     isLoading |-> FALSE,          \* ProjectPickerModal.isLoading
     cachedProjects |-> NoCache,   \* ProjectPickerModal.cachedProjects
     offered |-> {},               \* projects among the picker's suggestions
     selectedProject |-> 0,        \* ProjectPickerModal.selectedProject, 0: null
     content |-> <<>>,             \* const content
     requests |-> <<>>,            \* create-issue requests sent
     created |-> FALSE,            \* the service created the issue (2xx)
     issueUrl |-> <<>>,            \* const issueUrl
     updatedContent |-> <<>>,      \* const updatedContent
     notices |-> <<>>,             \* every new Notice(...) of the run, in order
     failures |-> {},              \* failures that occurred inside the run
     calls |-> {},                 \* kinds of remote call made
     opened |-> FALSE,             \* this.open() was called
     wrote |-> FALSE,              \* vault.modify of this run completed
     hadStatusBar |-> FALSE]       \* addStatusBarItem() was called

Notice(kind, msg, url) == [kind |-> kind, msg |-> msg, url |-> url]
Notify(rr, n) == [rr EXCEPT !.notices = Append(@, n)]
NoUrl == <<>>

(***************************************************************************)
(* lib/utils.ts dedupeProjects, sortProjectsFavoring                       *)
(***************************************************************************)
\* a GitLabProject, as far as the picker reads it
Project(id, name, description) == [id |-> id, name |-> name, description |-> description]

\* the ids of a list of projects, or of a list of identifiers
Ids(projects) == {projects[i].id : i \in 1..Len(projects)}
Members(list) == {list[i] : i \in 1..Len(list)}

\* the letters of project names in the order of the locale's collation,
\* which is not the order of the code units ("B" is before "a" there)
Collation == <<"a", "B", "c">>
Rank(c) == CHOOSE i \in 1..Len(Collation) : Collation[i] = c

\* a.localeCompare(b): negative, zero or positive
RECURSIVE localeCompare(_, _)
localeCompare(a, b) ==
    IF a = <<>> /\ b = <<>> THEN 0
    ELSE IF a = <<>> THEN -1
    ELSE IF b = <<>> THEN 1
    ELSE IF Rank(a[1]) < Rank(b[1]) THEN -1
    ELSE IF Rank(a[1]) > Rank(b[1]) THEN 1
    ELSE localeCompare(Tail(a), Tail(b))

\* the comparator of sortProjectsFavoring with the favorites test left out
CompareFavoring_NamesOnly(a, b, favSet) == localeCompare(a.name, b.name)

\* the comparator of sortProjectsFavoring
CompareFavoring(a, b, favSet) ==
    LET aFav == a.id \in favSet
        bFav == b.id \in favSet
    IN  IF aFav /\ ~bFav THEN -1
        ELSE IF ~aFav /\ bFav THEN 1
        ELSE localeCompare(a.name, b.name)

\* Array.prototype.sort is stable: an element goes before the first element
\* of the sorted part that the comparator puts after it
InsertSorted(sorted, x, favSet) ==
    LET I == {i \in 1..Len(sorted) : CompareFavoring(x, sorted[i], favSet) < 0}
        k == IF I = {} THEN Len(sorted) + 1 ELSE Min(I)
    IN  SubSeq(sorted, 1, k - 1) \o <<x>> \o Drop(sorted, k)

RECURSIVE SortWith(_, _)
SortWith(projects, favSet) ==
    IF projects = <<>> THEN <<>>
    ELSE InsertSorted(SortWith(SubSeq(projects, 1, Len(projects) - 1), favSet),
                      projects[Len(projects)], favSet)

sortProjectsFavoring(projects, favoriteIds) == SortWith(projects, Members(favoriteIds))

\* dedupeProjects with a filter that lets every project through
dedupeProjects_None(projects) == projects

\* projects.filter(p => first occurrence of p.id)
RECURSIVE dedupeProjects(_)
dedupeProjects(projects) ==
    IF projects = <<>> THEN <<>>
    ELSE LET front == dedupeProjects(SubSeq(projects, 1, Len(projects) - 1))
             last == projects[Len(projects)]
         IN  IF last.id \in Ids(front) THEN front ELSE Append(front, last)

(***************************************************************************)
(* lib/modal.ts ProjectPickerModal: one instance, the timers it has set    *)
(* with the host, its searches in flight, and what it has done so far      *)
(***************************************************************************)
P1 == Project(1, <<"B">>, "one")
P2 == Project(2, <<"a">>, "two")
P3 == Project(3, <<"c">>, "three")
P2Found == Project(2, <<"a">>, "found")     \* project 2 as a search describes it
P4 == Project(4, <<"a", "c">>, "four")

\* what fetchUserProjects resolves with, when it does
ListResults == {<<P1, P2, P3>>}
\* how fetchUserProjects settles: resolved with a list, or rejected
ListOutcomes ==
    {[ok |-> TRUE, list |-> l] : l \in ListResults} \cup {[ok |-> FALSE, list |-> <<>>]}
\* what searchProjects resolves with (the empty list also when it failed)
SearchResults == {<<>>, <<P4, P2Found>>}
\* settings.favProjects as saveSettings stored it in an earlier session
SavedFavorites == {<<>>, <<2>>}
\* texts of the picker's input field
Queries == {<<"a">>, <<"?", "?", " ">>, <<"?", "?", " ", "a">>}

Debounce == 3                                \* 300 ms, in steps of 100 ms

NoTerm == <<>>
\* list: the suggestions; input: what was sorted; cached, found: what a remote
\* search merged
NoShown ==
    [list |-> <<>>, input |-> <<>>, favs |-> {}, remote |-> FALSE,
     cached |-> <<>>, found |-> <<>>]

NoPicker ==
    [pc |-> "off",
     promises |-> <<>>,           \* per selectProject call: the values its promise delivered
     resolvePromise |-> 0,        \* the call whose resolve function the field holds, 0: unset
     cachedProjects |-> NoCache,
     isLoading |-> FALSE,
     selectedProject |-> 0,       \* the id of selectedProject, 0: null
     searchTimeout |-> 0,         \* handle of the last timer set, 0: null
     timers |-> {},               \* pending timers of the host: [id, age, term]
     inFlight |-> {},             \* searchProjects calls awaited: [id, term]
     isOpen |-> FALSE,            \* the modal is displayed
     shown |-> NoShown,           \* the suggestions last computed, and from what
     \* history
     awaiting |-> FALSE,          \* a selectProject call awaits loadProjectsAsync
     loadResult |-> "none",       \* "none", "ok" or "failed"
     listCalls |-> 0,             \* fetchUserProjects calls
     warnings |-> 0,              \* 'Failed to load projects' notices
     opens |-> {},                \* the values of isLoading at the calls of this.open()
     closed |-> FALSE,            \* onClose has run
     chosen |-> 0,                \* project of the suggestion chosen while open
     fallback |-> FALSE,          \* onChooseItem was called after the close
     resolveCalls |-> 0,          \* calls of resolvePromise
     keys |-> 0,                  \* changes of the query so far
     sinceKey |-> Debounce,       \* time since the last change, at most Debounce
     superseded |-> {},           \* changes followed by another in less than 300 ms
     searchCalls |-> {},          \* searchProjects calls started: [key, term, afterClose]
     delivered |-> {},            \* remote suggestion sets resolved: [key, afterClose]
     lastClick |-> [id |-> 0, before |-> <<>>],  \* the last click on a star
     toggles |-> 0,               \* clicks on a star
     saves |-> 0]                 \* saveSettings calls

(***************************************************************************)
(* lib/utils.ts handleApiError, fetchUserProjects: one call, page by page  *)
(***************************************************************************)
perPage == 100
MaxPage == 100

\* handleApiError with the 403 branch left out
handleApiError_No403(status, statusText) ==
    IF status = 401
    THEN <<"Invalid or expired GitLab Personal Access Token. Please check your token in plugin settings.">>
    ELSE IF status = 404
    THEN <<"Resource not found. Please verify the URL and permissions.">>
    ELSE IF status >= 500
    THEN <<"GitLab server error. Please try again later.">>
    ELSE <<"Request failed with status", status, statusText>>

handleApiError(status, statusText) ==
    IF status = 401
    THEN <<"Invalid or expired GitLab Personal Access Token. Please check your token in plugin settings.">>
    ELSE IF status = 403
    THEN <<"Access denied. Please ensure your token has proper permissions.">>
    ELSE IF status = 404
    THEN <<"Resource not found. Please verify the URL and permissions.">>
    ELSE IF status >= 500
    THEN <<"GitLab server error. Please try again later.">>
    ELSE <<"Request failed with status", status, statusText>>

\* a thrown value: its constructor, whether it is an instance of Error, and
\* its message
Thrown(name, isError, message) == [name |-> name, isError |-> isError, message |-> message]
NoError == Thrown("none", FALSE, <<>>)

\* how a request can go wrong.  fetch rejects with a TypeError when there is
\* no response, and with the DOMException TimeoutError of AbortSignal.timeout
\* at the deadline; response.json() rejects with a SyntaxError; "notArray"
\* is a 2xx response whose body is an object
FailureCauses ==
    {"401", "403", "404", "422", "500", "503", "network", "timeout", "badJson", "notArray"}
StatusOf(cause) ==
    CASE cause = "401" -> 401 [] cause = "403" -> 403 [] cause = "404" -> 404
      [] cause = "422" -> 422 [] cause = "500" -> 500 [] cause = "503" -> 503
      [] OTHER -> 200
IsStatusCause(cause) == StatusOf(cause) # 200

\* what the try block of fetchUserProjects throws for a failed page request
TryError(cause) ==
    CASE IsStatusCause(cause) -> Thrown("Error", TRUE, handleApiError(StatusOf(cause), "text"))
      [] cause = "network" -> Thrown("TypeError", TRUE, <<"Failed to fetch">>)
      [] cause = "timeout" -> Thrown("TimeoutError", TRUE, <<"signal timed out">>)
      [] cause = "badJson" -> Thrown("SyntaxError", TRUE, <<"Unexpected token">>)
      [] OTHER -> Thrown("Error", TRUE, <<"Unexpected response format from GitLab API">>)

\* the catch block of fetchUserProjects: an instance of Error is thrown again
\* as it is, before the tests for a TypeError and for an AbortError
CatchPageError(error) ==
    IF error.isError THEN error
    ELSE IF error.name = "TypeError"
    THEN Thrown("Error", TRUE,
                <<"Network error: Unable to connect to GitLab. Please check your internet connection.">>)
    ELSE IF error.name = "AbortError"
    THEN Thrown("Error", TRUE, <<"Request timeout: GitLab API request took too long.">>)
    ELSE Thrown("Error", TRUE, <<"Unexpected error while fetching projects", error.name>>)

\* The service, as one call of fetchUserProjects meets it: pages before page
\* last are full (last = 0: every page is full), page last holds short items
\* and later pages none; one item, on page defectPage, lacks the field
\* defect; header tells when X-Next-Page is sent ("next": on every page but
\* the last; "always": on every page); the request for page failPage fails
ItemDefects == {"id", "name", "path_with_namespace", "web_url", "description"}
RequiredFields == {"id", "name", "path_with_namespace", "web_url"}
LastPages == {0, 1, 2, 4, 100}
HeaderModes == {"none", "next", "always"}

PagingServices ==
    {[last |-> k, short |-> n, defectPage |-> d, defect |-> f, header |-> h,
      failPage |-> 0, cause |-> "none"] :
        k \in LastPages, n \in {0, 1}, d \in {0, 1, 2}, f \in {"web_url", "description"},
        h \in HeaderModes}
FailingServices ==
    {[last |-> 4, short |-> 1, defectPage |-> 0, defect |-> "none", header |-> h,
      failPage |-> p, cause |-> c] :
        h \in {"none", "next"}, p \in {1, 3}, c \in FailureCauses}
ListServices ==
    {s \in PagingServices : (s.defectPage = 0) => (s.defect = "web_url")} \cup FailingServices

\* the number of items of page p
RawSize(service, p) ==
    IF service.last = 0 \/ p < service.last THEN perPage
    ELSE IF p = service.last THEN service.short
    ELSE 0

\* the items of page p that pass the filter of fetchUserProjects: items are
\* told apart by page and position; the item with a defect is the first
\* of its page
ValidItems(service, p) ==
    [page |-> p,
     raw |-> RawSize(service, p),
     dropped |-> IF /\ p = service.defectPage
                    /\ RawSize(service, p) > 0
                    /\ service.defect \in RequiredFields
                 THEN {1} ELSE {}]
ItemCount(chunk) == chunk.raw - Cardinality(chunk.dropped)

\* response.headers.get('X-Next-Page'): 0 stands for null or ''
NextPageHeader(service, p) ==
    CASE service.header = "always" -> p + 1
      [] service.header = "next" /\ (service.last = 0 \/ p < service.last) -> p + 1
      [] OTHER -> 0

NoClient ==
    [op |-> "off", pc |-> "idle", token |-> <<>>, service |-> <<>>,
     query |-> <<>>,            \* searchQuery
     outcome |-> "none",        \* how the one request of a search or a test goes
     page |-> 1, hasMorePages |-> TRUE,
     allProjects |-> <<>>,      \* the valid items gathered, page by page
     requests |-> <<>>,         \* the pages requested, in order
     result |-> <<>>,           \* the value returned
     error |-> NoError]         \* the value thrown

\* the settings tab: the Test Connection button and its handler
NoStore ==
    [pc |-> "off",
     handler |-> "idle",          \* the click handler of the Test Connection button
     buttonDisabled |-> FALSE,
     buttonText |-> "Test Connection",
     notices |-> <<>>,
     disk |-> [present |-> FALSE, data |-> <<>>],   \* data.json
     pending |-> <<>>,            \* records handed to saveData and not yet written
     saveCalls |-> 0,
     mutations |-> 0]

(***************************************************************************)
(* Initial states                                                          *)
(***************************************************************************)
EdIdle == [pc |-> "off", doc |-> <<>>, url |-> <<>>, out |-> <<>>, out2 |-> <<>>]

Init ==
    /\ settings \in {[token |-> t, favProjects |-> <<>>] : t \in Tokens}
    /\ vault \in {[n \in MdNames |-> IF n = "note" THEN d ELSE DocPlain] : d \in InitDocs}
    /\ statusBarItems = {}
    /\ run = [r \in Runs |-> IdleRun]
    /\ ed = EdIdle
    /\ pk = NoPicker
    /\ rc = NoClient
    /\ st = NoStore

(***************************************************************************)
(* createIssueFromActiveFile: validation, then selectProject() up to the   *)
(* first await (loadProjectsAsync has started fetchUserProjects)           *)
(***************************************************************************)
\* Trigger with selectProject() not awaited: the pending promise passes the
\* test of selectedProject and createIssueWithProgress starts at once
Trigger_NoAwaitPicker(r) ==
    /\ run[r].pc = "idle"
    /\ \E f \in ActiveFiles :
        LET tokenOk == isNonEmptyString(settings.token)
            seen == [run[r] EXCEPT !.token = settings.token,
                                   !.file = IF tokenOk THEN f ELSE NoFile]
            end(n) == [Notify(seen, n) EXCEPT !.pc = "done"]
            goesOn == tokenOk /\ f.kind = "file" /\ EndsWith(f.path, MdSuffix)
        IN  /\ run' = [run EXCEPT ![r] =
                IF ~tokenOk
                THEN end(Notice("tokenRequired", "none", NoUrl))
                ELSE IF f.kind = "throws"
                THEN [end(Notice("unexpected", "none", NoUrl))
                         EXCEPT !.failures = @ \cup {"exception"}]
                ELSE IF f.kind = "none"
                THEN end(Notice("noActiveFile", "none", NoUrl))
                ELSE IF ~EndsWith(f.path, MdSuffix)
                THEN end(Notice("notMarkdown", "none", NoUrl))
                ELSE [seen EXCEPT !.pc = "reading",
                                  !.isLoading = TRUE,
                                  !.selectedProject = 0,
                                  !.hadStatusBar = TRUE,
                                  !.calls = @ \cup {"list"}]]
            /\ statusBarItems' = IF goesOn THEN statusBarItems \cup {r} ELSE statusBarItems
    /\ UNCHANGED <<settings, vault, ed, pk, rc, st>>

Trigger(r) ==
    /\ run[r].pc = "idle"
    /\ \E f \in ActiveFiles :
        LET tokenOk == isNonEmptyString(settings.token)
            seen == [run[r] EXCEPT !.token = settings.token,
                                   !.file = IF tokenOk THEN f ELSE NoFile]
            end(n) == [Notify(seen, n) EXCEPT !.pc = "done"]
        IN  run' = [run EXCEPT ![r] =
                IF ~tokenOk
                THEN end(Notice("tokenRequired", "none", NoUrl))
                ELSE IF f.kind = "throws"
                THEN [end(Notice("unexpected", "none", NoUrl))
                         EXCEPT !.failures = @ \cup {"exception"}]
                ELSE IF f.kind = "none"
                THEN end(Notice("noActiveFile", "none", NoUrl))
                ELSE IF ~EndsWith(f.path, MdSuffix)
                THEN end(Notice("notMarkdown", "none", NoUrl))
                ELSE [seen EXCEPT !.pc = "loading",
                                  !.isLoading = TRUE,
                                  !.selectedProject = 0,
                                  !.calls = @ \cup {"list"}]]
    /\ UNCHANGED <<settings, vault, statusBarItems, ed, pk, rc, st>>

(***************************************************************************)
(* loadProjectsAsync after fetchUserProjects settled, then this.open()     *)
(***************************************************************************)
\* LoadDone with a catch block that only logs: no Notice on a failed load
LoadDone_Silent(r) ==
    /\ run[r].pc = "loading"
    /\ \E ok \in BOOLEAN :
        run' = [run EXCEPT ![r] =
            [@ EXCEPT !.cachedProjects =
                          [isNull |-> FALSE,
                           list |-> IF ok THEN MemberList(run[r].token) ELSE <<>>],
                      !.offered = IF ok THEN MemberSet(run[r].token) ELSE {},
                      !.failures = IF ok THEN @ ELSE @ \cup {"list"},
                      !.isLoading = FALSE, !.opened = TRUE, !.pc = "picker"]]
    /\ UNCHANGED <<settings, vault, statusBarItems, ed, pk, rc, st>>

LoadDone(r) ==
    /\ run[r].pc = "loading"
    /\ \E ok \in BOOLEAN :
        LET loaded == [run[r] EXCEPT
                          !.cachedProjects =
                              [isNull |-> FALSE, list |-> MemberList(run[r].token)],
                          !.offered = MemberSet(run[r].token)]
            failed == [Notify(run[r], Notice("loadFailed", "list", NoUrl)) EXCEPT
                          !.cachedProjects = [isNull |-> FALSE, list |-> <<>>],
                          !.offered = {},
                          !.failures = @ \cup {"list"}]
        IN  run' = [run EXCEPT ![r] =
                [(IF ok THEN loaded ELSE failed) EXCEPT
                    !.isLoading = FALSE, !.opened = TRUE, !.pc = "picker"]]
    /\ UNCHANGED <<settings, vault, statusBarItems, ed, pk, rc, st>>

(***************************************************************************)
(* getSuggestions for a "??" query: the remote results, merged with the    *)
(* cached list, become the suggestions                                     *)
(***************************************************************************)
RemoteSearch(r) ==
    /\ run[r].pc = "picker"
    /\ \E found \in SUBSET MemberSet(run[r].token) :
        run' = [run EXCEPT ![r] =
            [@ EXCEPT !.offered =
                          {run[r].cachedProjects.list[i] :
                              i \in 1..Len(run[r].cachedProjects.list)} \cup found,
                      !.calls = @ \cup {"search"}]]
    /\ UNCHANGED <<settings, vault, statusBarItems, ed, pk, rc, st>>

(***************************************************************************)
(* The picker closes.  onClose resolves the promise of selectProject with  *)
(* selectedProject, and createIssueFromActiveFile goes on from its await:  *)
(* with a project, into createIssueWithProgress up to vault.read           *)
(***************************************************************************)
\* SelectSuggestion with one picker kept by the plugin for all runs: its
\* selectedProject is what every run that has chosen goes on with
SelectSuggestion_SharedPicker(r) ==
    /\ run[r].pc = "picker"
    /\ \E p \in run[r].offered :
        run' = [q \in Runs |->
            IF q = r
            THEN [run[r] EXCEPT !.selectedProject = p,
                                !.offered = {},
                                !.hadStatusBar = TRUE,
                                !.pc = "reading"]
            ELSE IF run[q].selectedProject # 0
            THEN [run[q] EXCEPT !.selectedProject = p]
            ELSE run[q]]
    /\ statusBarItems' = statusBarItems \cup {r}
    /\ UNCHANGED <<settings, vault, ed, pk, rc, st>>

\* selectSuggestion(item): selectedProject = item.item; close()
SelectSuggestion(r) ==
    /\ run[r].pc = "picker"
    /\ \E p \in run[r].offered :
        run' = [run EXCEPT ![r] =
            [@ EXCEPT !.selectedProject = p,
                      !.offered = {},
                      !.hadStatusBar = TRUE,
                      !.pc = "reading"]]
    /\ statusBarItems' = statusBarItems \cup {r}
    /\ UNCHANGED <<settings, vault, ed, pk, rc, st>>

\* ClosePicker without the return after the cancellation notice: the run goes
\* on to selectedProject.id of null, which throws into the outer catch
ClosePicker_NoReturn(r) ==
    /\ run[r].pc = "picker"
    /\ run' = [run EXCEPT ![r] =
            [Notify(Notify(@, Notice("cancelled", "none", NoUrl)),
                    Notice("unexpected", "none", NoUrl)) EXCEPT
                !.offered = {}, !.failures = @ \cup {"exception"}, !.pc = "done"]]
    /\ UNCHANGED <<settings, vault, statusBarItems, ed, pk, rc, st>>

\* the user closes the picker without choosing: selectedProject is null
ClosePicker(r) ==
    /\ run[r].pc = "picker"
    /\ run' = [run EXCEPT ![r] =
            [Notify(@, Notice("cancelled", "none", NoUrl)) EXCEPT
                !.offered = {}, !.pc = "done"]]
    /\ UNCHANGED <<settings, vault, statusBarItems, ed, pk, rc, st>>

(***************************************************************************)
(* createIssueWithProgress                                                 *)
(***************************************************************************)
\* settings.defaultLabels is not modelled: the labels of a request are no
\* part of any property checked here
IssueData(rr) ==
    [project |-> rr.selectedProject,
     title |-> rr.file.basename,
     description |-> transformMarkdownForGitLab(rr.content)]

\* ReadDone whose blank-title return shows no Notice
ReadDone_SilentNoTitle(r) ==
    /\ run[r].pc = "reading"
    /\ \E ok \in BOOLEAN :
        LET got == [run[r] EXCEPT !.content = vault[run[r].file.name]]
            ends == \/ ~ok
                    \/ Trim(run[r].file.basename) = <<>>
        IN  /\ run' = [run EXCEPT ![r] =
                    IF ~ok
                    THEN [Notify(run[r], Notice("error", "read", NoUrl)) EXCEPT
                             !.failures = @ \cup {"read"}, !.pc = "done"]
                    ELSE IF Trim(got.file.basename) = <<>>
                    THEN [got EXCEPT !.pc = "done"]
                    ELSE [got EXCEPT !.requests = Append(@, IssueData(got)),
                                     !.calls = @ \cup {"create"},
                                     !.pc = "creating"]]
            /\ statusBarItems' = IF ends THEN statusBarItems \ {r} ELSE statusBarItems
    /\ UNCHANGED <<settings, vault, ed, pk, rc, st>>

\* vault.read settled: title check, transformation, the POST is sent
ReadDone(r) ==
    /\ run[r].pc = "reading"
    /\ \E ok \in BOOLEAN :
        LET got == [run[r] EXCEPT !.content = vault[run[r].file.name]]
            ends == \/ ~ok
                    \/ Trim(run[r].file.basename) = <<>>
        IN  /\ run' = [run EXCEPT ![r] =
                    IF ~ok
                    THEN [Notify(run[r], Notice("error", "read", NoUrl)) EXCEPT
                             !.failures = @ \cup {"read"}, !.pc = "done"]
                    ELSE IF Trim(got.file.basename) = <<>>
                    THEN [Notify(got, Notice("noTitle", "none", NoUrl)) EXCEPT
                             !.pc = "done"]
                    ELSE [got EXCEPT !.requests = Append(@, IssueData(got)),
                                     !.calls = @ \cup {"create"},
                                     !.pc = "creating"]]
            /\ statusBarItems' = IF ends THEN statusBarItems \ {r} ELSE statusBarItems
    /\ UNCHANGED <<settings, vault, ed, pk, rc, st>>

\* CreateErrorMessage without the check of web_url
CreateErrorMessage_NoUrlCheck(resp) ==
    CASE resp \in {"401", "403", "404", "500", "422"} -> "status"
      [] resp = "network" -> "network"
      [] resp = "abort" -> "aborted"
      [] resp = "timeout" -> "timedOut"
      [] OTHER -> "none"

\* the class of the error a create-issue outcome throws ("status" stands for
\* the message chosen by the status), "none" when the response is 2xx and
\* holds web_url
CreateErrorMessage(resp) ==
    CASE resp \in {"401", "403", "404", "500", "422"} -> "status"
      [] resp = "network" -> "network"
      [] resp = "abort" -> "aborted"
      [] resp = "timeout" -> "timedOut"
      [] resp = "noUrl" -> "missingUrl"
      [] OTHER -> "none"

\* the catch block's notice for a failed create-issue call
CreateFailureNotice(resp) ==
    IF resp = "abort"
    THEN Notice("timeout", "aborted", NoUrl)
    ELSE Notice("error", CreateErrorMessage(resp), NoUrl)

\* the POST settled: on success buildUpdatedFrontmatter, vault.modify starts
\* CreateDone handing the transformed text, not the text read, to
\* buildUpdatedFrontmatter
CreateDone_WritesTransformed(r) ==
    /\ run[r].pc = "creating"
    /\ \E resp \in CreateResponses :
        LET got == [run[r] EXCEPT !.created = Created(resp)]
            failed == CreateErrorMessage(resp) # "none"
        IN  /\ run' = [run EXCEPT ![r] =
                    IF failed
                    THEN [Notify(got, CreateFailureNotice(resp)) EXCEPT
                             !.failures = @ \cup {"create"}, !.pc = "done"]
                    ELSE [got EXCEPT
                             !.issueUrl = ResponseUrl(resp, r),
                             !.updatedContent =
                                 buildUpdatedFrontmatter(
                                     transformMarkdownForGitLab(got.content),
                                     ResponseUrl(resp, r)),
                             !.pc = "writing"]]
            /\ statusBarItems' = IF failed THEN statusBarItems \ {r} ELSE statusBarItems
    /\ UNCHANGED <<settings, vault, ed, pk, rc, st>>

CreateDone(r) ==
    /\ run[r].pc = "creating"
    /\ \E resp \in CreateResponses :
        LET got == [run[r] EXCEPT !.created = Created(resp)]
            failed == CreateErrorMessage(resp) # "none"
        IN  /\ run' = [run EXCEPT ![r] =
                    IF failed
                    THEN [Notify(got, CreateFailureNotice(resp)) EXCEPT
                             !.failures = @ \cup {"create"}, !.pc = "done"]
                    ELSE [got EXCEPT
                             !.issueUrl = ResponseUrl(resp, r),
                             !.updatedContent =
                                 buildUpdatedFrontmatter(got.content, ResponseUrl(resp, r)),
                             !.pc = "writing"]]
            /\ statusBarItems' = IF failed THEN statusBarItems \ {r} ELSE statusBarItems
    /\ UNCHANGED <<settings, vault, ed, pk, rc, st>>

\* WriteDone with statusBar.remove() at the end of the try block instead
\* of in a finally block
WriteDone_NoFinally(r) ==
    /\ run[r].pc = "writing"
    /\ \E ok \in BOOLEAN :
        /\ run' = [run EXCEPT ![r] =
                IF ok
                THEN [Notify(@, Notice("success", "none", run[r].issueUrl)) EXCEPT
                         !.wrote = TRUE, !.pc = "done"]
                ELSE [Notify(@, Notice("error", "write", NoUrl)) EXCEPT
                         !.failures = @ \cup {"write"}, !.pc = "done"]]
        /\ vault' = IF ok
                    THEN [vault EXCEPT ![run[r].file.name] = run[r].updatedContent]
                    ELSE vault
        /\ statusBarItems' = IF ok THEN statusBarItems \ {r} ELSE statusBarItems
    /\ UNCHANGED <<settings, ed, pk, rc, st>>

\* vault.modify settled: success notice, or the catch block's notice
WriteDone(r) ==
    /\ run[r].pc = "writing"
    /\ \E ok \in BOOLEAN :
        /\ run' = [run EXCEPT ![r] =
                IF ok
                THEN [Notify(@, Notice("success", "none", run[r].issueUrl)) EXCEPT
                         !.wrote = TRUE, !.pc = "done"]
                ELSE [Notify(@, Notice("error", "write", NoUrl)) EXCEPT
                         !.failures = @ \cup {"write"}, !.pc = "done"]]
        /\ vault' = IF ok
                    THEN [vault EXCEPT ![run[r].file.name] = run[r].updatedContent]
                    ELSE vault
    /\ statusBarItems' = statusBarItems \ {r}
    /\ UNCHANGED <<settings, ed, pk, rc, st>>

(***************************************************************************)
(* Specification of the command                                            *)
(***************************************************************************)
RunStep(r) ==
    \/ Trigger(r)
    \/ LoadDone(r)
    \/ RemoteSearch(r)
    \/ SelectSuggestion(r)
    \/ ClosePicker(r)
    \/ ReadDone(r)
    \/ CreateDone(r)
    \/ WriteDone(r)

Next == \E r \in Runs : RunStep(r)

Spec == Init /\ [][Next]_vars

\* the user types a line at the end of the note while the command runs
UserText == <<NL, "e">>

UserEdit ==
    /\ ~EndsWith(vault["note"], UserText)
    /\ vault' = [vault EXCEPT !["note"] = @ \o UserText]
    /\ UNCHANGED <<settings, statusBarItems, run, ed, pk, rc, st>>

WriteBackNext ==
    \/ \E r \in Runs : RunStep(r)
    \/ UserEdit

SpecWriteBack == Init /\ [][WriteBackNext]_vars

\* the command run by a user who is a member of two projects
OverlapInit ==
    /\ settings = [token |-> TokenOfTwo, favProjects |-> <<>>]
    /\ vault = [n \in MdNames |-> DocPlain]
    /\ statusBarItems = {}
    /\ run = [r \in Runs |-> IdleRun]
    /\ ed = EdIdle
    /\ pk = NoPicker
    /\ rc = NoClient
    /\ st = NoStore

SpecOverlap == OverlapInit /\ [][Next]_vars

\* The requests, reads and writes of a run settle (each request carries a
\* 30 s AbortSignal.timeout), and the user chooses or closes an open picker
Settle(r) == LoadDone(r) \/ ReadDone(r) \/ CreateDone(r) \/ WriteDone(r)
Resolve(r) == SelectSuggestion(r) \/ ClosePicker(r)

LiveNext == \E r \in LiveRuns : RunStep(r)

LiveSpec ==
    /\ Init
    /\ [][LiveNext]_vars
    /\ \A r \in LiveRuns : WF_vars(Settle(r)) /\ WF_vars(Resolve(r))

(***************************************************************************)
(* Harness of the pure text functions: buildUpdatedFrontmatter applied to  *)
(* every text of at most MaxDocLines lines taken from LinePool             *)
(***************************************************************************)
LinePool ==
    {<<>>,                               \* an empty line
     <<"a">>,                            \* some line
     Dash3,                              \* the marker alone
     Dash3 \o <<"x">>,                   \* a line that begins with the marker
     IssueKey \o <<" ", "o">>,           \* the issue key with an old value
     <<"x", "_">> \o IssueKey \o <<"v">>}  \* another key that ends in the issue key's text

RECURSIVE Join(_)
Join(lines) ==
    IF lines = <<>> THEN <<>>
    ELSE IF Len(lines) = 1 THEN lines[1]
    ELSE lines[1] \o <<NL>> \o Join(Tail(lines))

HarnessDocs ==
    UNION {{Join(ls) : ls \in [1..n -> LinePool]} : n \in 0..MaxDocLines}
\* the last URL holds "$$", which a replacement text reads as one dollar sign
HarnessUrls == {<<"u">>, <<"h", "/", "7">>, <<"h", "$", "$">>}

InitEditor ==
    /\ settings = [token |-> <<>>, favProjects |-> <<>>]
    /\ vault = [n \in MdNames |-> DocPlain]
    /\ statusBarItems = {}
    /\ run = [r \in Runs |-> IdleRun]
    /\ pk = NoPicker
    /\ rc = NoClient
    /\ st = NoStore
    /\ ed \in {[pc |-> "input", doc |-> d, url |-> u, out |-> <<>>, out2 |-> <<>>] :
                  d \in HarnessDocs, u \in HarnessUrls}

ApplyEditor ==
    /\ ed.pc = "input"
    /\ ed' = [ed EXCEPT !.out = buildUpdatedFrontmatter(ed.doc, ed.url),
                        !.pc = "edited"]
    /\ UNCHANGED <<settings, vault, statusBarItems, run, pk, rc, st>>

\* the function applied to its own output, with the same URL
ApplyEditorAgain ==
    /\ ed.pc = "edited"
    /\ ed' = [ed EXCEPT !.out2 = buildUpdatedFrontmatter(ed.out, ed.url),
                        !.pc = "twice"]
    /\ UNCHANGED <<settings, vault, statusBarItems, run, pk, rc, st>>

NextEditor == ApplyEditor \/ ApplyEditorAgain

SpecEditor == InitEditor /\ [][NextEditor]_vars

\* the editor applied as the write-back applies it, beside what the host's
\* metadata index would report for the note: the write-back never asks it
InitIndexedEditor ==
    /\ settings = [token |-> <<>>, favProjects |-> <<>>]
    /\ vault = [n \in MdNames |-> DocPlain]
    /\ statusBarItems = {}
    /\ run = [r \in Runs |-> IdleRun]
    /\ pk = NoPicker
    /\ rc = NoClient
    /\ st = NoStore
    /\ ed \in {[pc |-> "input", doc |-> d, url |-> <<"u">>, out |-> <<>>, out2 |-> <<>>,
                 hasFrontmatter |-> h] :
                  d \in HarnessDocs, h \in BOOLEAN}

SpecIndexedEditor == InitIndexedEditor /\ [][NextEditor]_vars

(***************************************************************************)
(* The project picker on its own: one ProjectPickerModal instance, the     *)
(* user at its input field and its list, the host's clock and timers       *)
(***************************************************************************)
PickerInit ==
    /\ settings \in {[token |-> <<"t">>, favProjects |-> f] : f \in SavedFavorites}
    /\ vault = [n \in MdNames |-> DocPlain]
    /\ statusBarItems = {}
    /\ run = [r \in Runs |-> IdleRun]
    /\ ed = EdIdle
    /\ pk = [NoPicker EXCEPT !.pc = "on"]
    /\ rc = NoClient
    /\ st = NoStore

\* the picker is closed after having been closed by onClose
AfterClose(p) == p.closed /\ ~p.isOpen

\* resolvePromise as a plain callback: every call delivers its value
ResolvePromise_Callback(p, value) ==
    IF p.resolvePromise = 0 THEN p
    ELSE [p EXCEPT !.resolveCalls = @ + 1,
                   !.promises[p.resolvePromise] = Append(@, value)]

\* if (this.resolvePromise) this.resolvePromise(value): the resolve function
\* of a promise settles it the first time it is called and does nothing after
ResolvePromise(p, value) ==
    IF p.resolvePromise = 0 THEN p
    ELSE [p EXCEPT !.resolveCalls = @ + 1,
                   !.promises[p.resolvePromise] = IF @ = <<>> THEN <<value>> ELSE @]

\* clearTimeout(handle)
clearTimeout(timers, handle) == {t \in timers : t.id # handle}

\* onClose(): the promise is resolved with selectedProject, then the search
\* timeout the field holds is cleared
onClose(p) ==
    [ResolvePromise(p, p.selectedProject) EXCEPT
        !.timers = IF p.searchTimeout # 0 THEN clearTimeout(@, p.searchTimeout) ELSE @,
        !.searchTimeout = 0,
        !.isOpen = FALSE,
        !.closed = TRUE]

\* getItems(): the cached projects, favorites first
getItems(p, favProjects) ==
    IF p.cachedProjects.isNull
    THEN NoShown
    ELSE [list |-> sortProjectsFavoring(p.cachedProjects.list, favProjects),
          input |-> p.cachedProjects.list,
          favs |-> Members(favProjects),
          remote |-> FALSE,
          cached |-> <<>>,
          found |-> <<>>]

\* this.open(): the modal is displayed with the suggestions of the empty query
Open(p, favProjects) ==
    [p EXCEPT !.isOpen = TRUE,
              !.opens = @ \cup {p.isLoading},
              !.shown = getItems(p, favProjects)]

\* the guard of loadProjectsAsync with the test of the cache left out
ShouldLoad_IgnoresCache(p) == ~p.isLoading

\* the guard of loadProjectsAsync: neither loading nor loaded
ShouldLoad(p) == ~(p.isLoading \/ ~p.cachedProjects.isNull)

\* selectProject(): a new promise; loadProjectsAsync starts fetchUserProjects
\* and is awaited, or returns at once and this.open() follows
selectProject(p, favProjects) ==
    LET called == [p EXCEPT !.promises = Append(@, <<>>),
                            !.resolvePromise = Len(p.promises) + 1,
                            !.selectedProject = 0]
    IN  IF ShouldLoad(called)
        THEN [called EXCEPT !.isLoading = TRUE,
                            !.listCalls = @ + 1,
                            !.awaiting = TRUE]
        ELSE Open(called, favProjects)

\* the call the command makes on the instance it has constructed
PkFirstSelect ==
    /\ pk.pc = "on"
    /\ pk.promises = <<>>
    /\ pk' = selectProject(pk, settings.favProjects)
    /\ UNCHANGED <<settings, vault, statusBarItems, run, ed, rc, st>>

\* selectProject() called by any holder of the instance, at any time
PkSelectProject ==
    /\ pk.pc = "on"
    /\ Len(pk.promises) < MaxSelectCalls
    /\ pk' = selectProject(pk, settings.favProjects)
    /\ UNCHANGED <<settings, vault, statusBarItems, run, ed, rc, st>>

\* fetchUserProjects settled: try/catch/finally of loadProjectsAsync, then
\* the awaiting selectProject goes on to this.open()
PkLoadDone ==
    /\ pk.pc = "on"
    /\ pk.awaiting
    /\ \E res \in ListOutcomes :
        LET loaded ==
                IF ~res.ok
                THEN [pk EXCEPT !.cachedProjects = [isNull |-> FALSE, list |-> <<>>],
                                !.warnings = @ + 1,
                                !.loadResult = "failed"]
                ELSE [pk EXCEPT !.cachedProjects = [isNull |-> FALSE, list |-> res.list],
                                !.loadResult = "ok"]
        IN  pk' = Open([loaded EXCEPT !.isLoading = FALSE, !.awaiting = FALSE],
                       settings.favProjects)
    /\ UNCHANGED <<settings, vault, statusBarItems, run, ed, rc, st>>

RemotePrefix == <<"?", "?">>

\* getSuggestions(query): a "??" query with a term sets the debounce timer,
\* after clearing the one the field holds; a "??" query without a term
\* returns [] and any other query goes to the fuzzy search over getItems()
getSuggestions(p, query, key, favProjects) ==
    IF StartsWithAt(query, RemotePrefix, 1)
    THEN LET searchQuery == Trim(Drop(query, Len(RemotePrefix) + 1))
         IN  IF searchQuery = NoTerm
             THEN [p EXCEPT !.shown = NoShown]
             ELSE [p EXCEPT
                      !.timers =
                          (IF p.searchTimeout # 0
                           THEN clearTimeout(@, p.searchTimeout) ELSE @)
                          \cup {[id |-> key, age |-> 0, term |-> searchQuery]},
                      !.searchTimeout = key]
    ELSE [p EXCEPT !.shown = getItems(p, favProjects)]

\* the user changes the query; the change is in a burst with the previous one
\* when less than 300 ms have passed
PkInput ==
    /\ pk.isOpen
    /\ pk.keys < MaxKeys
    /\ \E query \in Queries :
        LET key == pk.keys + 1
            typed == [pk EXCEPT
                        !.keys = key,
                        !.sinceKey = 0,
                        !.superseded = IF pk.keys > 0 /\ pk.sinceKey < Debounce
                                       THEN @ \cup {pk.keys} ELSE @]
        IN  pk' = getSuggestions(typed, query, key, settings.favProjects)
    /\ UNCHANGED <<settings, vault, statusBarItems, run, ed, rc, st>>

\* 100 ms pass; a timer that is due fires before more time passes
PkTick ==
    /\ pk.pc = "on"
    /\ pk.timers # {} \/ (pk.keys > 0 /\ pk.sinceKey < Debounce)
    /\ \A t \in pk.timers : t.age < Debounce
    /\ pk' = [pk EXCEPT
                !.timers = {[t EXCEPT !.age = @ + 1] : t \in pk.timers},
                !.sinceKey = IF @ < Debounce THEN @ + 1 ELSE @]
    /\ UNCHANGED <<settings, vault, statusBarItems, run, ed, rc, st>>

\* the callback of setTimeout up to its await: searchProjects sends its request
PkTimerFire ==
    /\ \E t \in pk.timers :
        /\ t.age = Debounce
        /\ pk' = [pk EXCEPT
                    !.timers = @ \ {t},
                    !.inFlight = @ \cup {[id |-> t.id, term |-> t.term]},
                    !.searchCalls = @ \cup {[key |-> t.id, term |-> t.term,
                                             afterClose |-> AfterClose(pk)]}]
    /\ UNCHANGED <<settings, vault, statusBarItems, run, ed, rc, st>>

\* searchProjects settled: merge with the cache, dedupe, sort, resolve(matches)
PkSearchDone ==
    /\ \E f \in pk.inFlight, remoteResults \in SearchResults :
        LET allProjects == dedupeProjects(pk.cachedProjects.list \o remoteResults)
            sorted == sortProjectsFavoring(allProjects, settings.favProjects)
        IN  pk' = [pk EXCEPT
                    !.inFlight = @ \ {f},
                    !.delivered = @ \cup {[key |-> f.id, afterClose |-> AfterClose(pk)]},
                    !.shown = [list |-> sorted, input |-> allProjects,
                               favs |-> Members(settings.favProjects), remote |-> TRUE,
                               cached |-> pk.cachedProjects.list,
                               found |-> remoteResults]]
    /\ UNCHANGED <<settings, vault, statusBarItems, run, ed, rc, st>>

\* the star's click handler with every click adding the identifier
ToggleFavorite_AlwaysPush(currentFavs, id) == Append(currentFavs, id)

\* the star's click handler on settings.favProjects: splice(index, 1) of the
\* first occurrence, or push
ToggleFavorite(currentFavs, id) ==
    LET I == {i \in 1..Len(currentFavs) : currentFavs[i] = id}
    IN  IF I # {}
        THEN SubSeq(currentFavs, 1, Min(I) - 1) \o Drop(currentFavs, Min(I) + 1)
        ELSE Append(currentFavs, id)

\* a click on the star that is not stopped and reaches the suggestion's own
\* click handler, which chooses the suggestion
PkStarClick_Propagates ==
    /\ pk.isOpen
    /\ pk.toggles < MaxToggles
    /\ \E i \in 1..Len(pk.shown.list) :
        LET project == pk.shown.list[i]
            clicked == [pk EXCEPT
                          !.toggles = @ + 1, !.saves = @ + 1,
                          !.lastClick = [id |-> project.id, before |-> settings.favProjects],
                          !.selectedProject = project.id,
                          !.chosen = project.id]
        IN  /\ settings' = [settings EXCEPT
                               !.favProjects = ToggleFavorite(@, project.id)]
            /\ pk' = onClose(clicked)
    /\ UNCHANGED <<vault, statusBarItems, run, ed, rc, st>>

\* a click on the star of a listed project: stopPropagation, the toggle,
\* saveSettings()
PkStarClick ==
    /\ pk.isOpen
    /\ pk.toggles < MaxToggles
    /\ \E i \in 1..Len(pk.shown.list) :
        LET project == pk.shown.list[i]
        IN  /\ settings' = [settings EXCEPT
                               !.favProjects = ToggleFavorite(@, project.id)]
            /\ pk' = [pk EXCEPT
                        !.toggles = @ + 1, !.saves = @ + 1,
                        !.lastClick = [id |-> project.id, before |-> settings.favProjects]]
    /\ UNCHANGED <<vault, statusBarItems, run, ed, rc, st>>

\* selectSuggestion(item): selectedProject = item.item; close(), so onClose
PkSelectSuggestion ==
    /\ pk.isOpen
    /\ \E i \in 1..Len(pk.shown.list) :
        pk' = onClose([pk EXCEPT !.selectedProject = pk.shown.list[i].id,
                                 !.chosen = pk.shown.list[i].id])
    /\ UNCHANGED <<settings, vault, statusBarItems, run, ed, rc, st>>

\* the user closes the picker: close(), so onClose
PkClose ==
    /\ pk.isOpen
    /\ pk' = onClose(pk)
    /\ UNCHANGED <<settings, vault, statusBarItems, run, ed, rc, st>>

\* onChooseItem(project), the fallback, called once the picker has closed:
\* selectedProject = project; close(), so onClose again
PkOnChooseItem ==
    /\ AfterClose(pk)
    /\ ~pk.fallback
    /\ \E i \in 1..Len(pk.shown.list) :
        pk' = onClose([pk EXCEPT !.selectedProject = pk.shown.list[i].id,
                                 !.fallback = TRUE])
    /\ UNCHANGED <<settings, vault, statusBarItems, run, ed, rc, st>>

PickerStep ==
    \/ PkLoadDone
    \/ PkInput
    \/ PkTick
    \/ PkTimerFire
    \/ PkSearchDone
    \/ PkStarClick
    \/ PkSelectSuggestion
    \/ PkClose
    \/ PkOnChooseItem

\* the picker as the command uses it: one selectProject() call per instance
PickerNext == PkFirstSelect \/ PickerStep
SpecPicker == PickerInit /\ [][PickerNext]_vars

\* the picker with selectProject() called again on the same instance
ReentrantNext ==
    \/ PkSelectProject
    \/ PkLoadDone
    \/ PkStarClick
    \/ PkSelectSuggestion
    \/ PkClose
    \/ PkOnChooseItem
SpecPickerReentrant == PickerInit /\ [][ReentrantNext]_vars

(***************************************************************************)
(* The remote client on its own: one call of fetchUserProjects,            *)
(* searchProjects or testConnection against one service                    *)
(***************************************************************************)
ListCalls ==
    {[NoClient EXCEPT !.op = "list", !.token = <<"t">>, !.service = s] : s \in ListServices}
    \cup {[NoClient EXCEPT !.op = "list", !.token = <<" ">>,
                           !.service = CHOOSE s \in FailingServices : TRUE]}

\* fetchUserProjects up to its first await: the token test, the first request
RcListStart ==
    /\ rc.op = "list" /\ rc.pc = "idle"
    /\ rc' = IF rc.token = <<>> \/ Trim(rc.token) = <<>>
             THEN [rc EXCEPT !.pc = "threw",
                             !.error = Thrown("Error", TRUE,
                                 <<"GitLab Personal Access Token is required">>)]
             ELSE [rc EXCEPT !.pc = "waiting", !.requests = <<rc.page>>]
    /\ UNCHANGED <<settings, vault, statusBarItems, run, ed, pk, st>>

\* "Check pagination": the header if there is one, else a page of fewer valid
\* items than perPage ends the loop, else the next page up to MaxPage
NextPageState(page, nextPage, projects) ==
    IF nextPage # 0
    THEN [page |-> nextPage, hasMorePages |-> TRUE]
    ELSE IF ItemCount(projects) < perPage
    THEN [page |-> page, hasMorePages |-> FALSE]
    ELSE [page |-> page + 1, hasMorePages |-> page + 1 <= MaxPage]

\* the request for rc.page settled: the body of the while loop from the
\* await on, and the loop's next request or the return
RcListResponse ==
    /\ rc.op = "list" /\ rc.pc = "waiting"
    /\ Len(rc.requests) < MaxRequests
    /\ LET projects == ValidItems(rc.service, rc.page)
           gathered == Append(rc.allProjects, projects)
           next == NextPageState(rc.page, NextPageHeader(rc.service, rc.page), projects)
       IN  rc' = IF rc.service.failPage = rc.page
                 THEN [rc EXCEPT !.pc = "threw",
                                 !.error = CatchPageError(TryError(rc.service.cause))]
                 ELSE IF next.hasMorePages
                 THEN [rc EXCEPT !.allProjects = gathered,
                                 !.page = next.page,
                                 !.requests = Append(@, next.page)]
                 ELSE [rc EXCEPT !.allProjects = gathered,
                                 !.page = next.page,
                                 !.hasMorePages = FALSE,
                                 !.pc = "returned",
                                 !.result = gathered]
    /\ UNCHANGED <<settings, vault, statusBarItems, run, ed, pk, st>>

(***************************************************************************)
(* lib/utils.ts searchProjects, testConnection; lib/settings.ts, the        *)
(* handler of the Test Connection button                                   *)
(***************************************************************************)
SearchQueries == {<<>>, <<" ">>, <<"a">>}
SearchOutcomes == FailureCauses \cup {"ok"}

\* the array of a 2xx search response: the field each item lacks
SearchBody == <<"none", "web_url", "name", "description">>
SearchRequiredFields == {"id", "name", "path_with_namespace"}

SearchCalls ==
    {[NoClient EXCEPT !.op = "search", !.token = <<"t">>, !.query = q, !.outcome = o] :
        q \in SearchQueries, o \in SearchOutcomes}

\* searchProjects up to its await: a blank query returns [] with no request
RcSearchStart ==
    /\ rc.op = "search" /\ rc.pc = "idle"
    /\ rc' = IF rc.query = <<>> \/ Trim(rc.query) = <<>>
             THEN [rc EXCEPT !.pc = "returned", !.result = <<>>]
             ELSE [rc EXCEPT !.pc = "waiting", !.requests = <<"search">>]
    /\ UNCHANGED <<settings, vault, statusBarItems, run, ed, pk, st>>

\* searchProjects without its try and catch: a rejected fetch or json()
\* leaves the function as an exception
searchSettled_NoCatch(c) ==
    CASE c.outcome = "ok" ->
            [c EXCEPT !.pc = "returned",
                      !.result = SelectSeq([i \in 1..Len(SearchBody) |->
                                               [item |-> i, lacks |-> SearchBody[i]]],
                                           LAMBDA p : p.lacks \notin SearchRequiredFields)]
      [] c.outcome \in {"network", "timeout", "badJson"} ->
            [c EXCEPT !.pc = "threw", !.error = TryError(c.outcome)]
      [] OTHER -> [c EXCEPT !.pc = "returned", !.result = <<>>]

\* searchProjects after its await: [] for a status that is not ok, for a body
\* that is no array and from the catch block; else the items that pass the
\* filter
searchSettled(c) ==
    IF c.outcome = "ok"
    THEN [c EXCEPT !.pc = "returned",
                   !.result = SelectSeq([i \in 1..Len(SearchBody) |->
                                            [item |-> i, lacks |-> SearchBody[i]]],
                                        LAMBDA p : p.lacks \notin SearchRequiredFields)]
    ELSE [c EXCEPT !.pc = "returned", !.result = <<>>]

RcSearchResponse ==
    /\ rc.op = "search" /\ rc.pc = "waiting"
    /\ rc' = searchSettled(rc)
    /\ UNCHANGED <<settings, vault, statusBarItems, run, ed, pk, st>>

\* outcomes of the request of testConnection: a failure, or a 2xx response
\* whose body holds username, only name, neither, or is null
TestOutcomes ==
    (FailureCauses \ {"notArray"}) \cup {"username", "nameOnly", "noName", "nullBody"}

TestCalls ==
    {[NoClient EXCEPT !.op = "test", !.outcome = o] : o \in TestOutcomes}

\* testConnection without its catch block
testSettled_NoCatch(c) ==
    CASE IsStatusCause(c.outcome) ->
            [c EXCEPT !.pc = "returned",
                      !.result = <<[success |-> FALSE,
                                    message |-> handleApiError(StatusOf(c.outcome), "text")]>>]
      [] c.outcome \in {"network", "timeout", "badJson"} ->
            [c EXCEPT !.pc = "threw", !.error = TryError(c.outcome)]
      [] c.outcome = "nullBody" ->
            [c EXCEPT !.pc = "threw",
                      !.error = Thrown("TypeError", TRUE, <<"Cannot read properties of null">>)]
      [] OTHER ->
            [c EXCEPT !.pc = "returned",
                      !.result = <<[success |-> TRUE,
                                    message |-> <<"Connected successfully as", c.outcome>>]>>]

\* testConnection after its await: a failure result for a status that is not
\* ok and from the catch block (the timeout of AbortSignal.timeout is a
\* TimeoutError, so its message is taken like any other), else success
testSettled(c) ==
    CASE IsStatusCause(c.outcome) ->
            [c EXCEPT !.pc = "returned",
                      !.result = <<[success |-> FALSE,
                                    message |-> handleApiError(StatusOf(c.outcome), "text")]>>]
      [] c.outcome \in {"network", "timeout", "badJson"} ->
            [c EXCEPT !.pc = "returned",
                      !.result = <<[success |-> FALSE,
                                    message |-> TryError(c.outcome).message]>>]
      [] c.outcome = "nullBody" ->
            [c EXCEPT !.pc = "returned",
                      !.result = <<[success |-> FALSE,
                                    message |-> <<"Cannot read properties of null">>]>>]
      [] OTHER ->
            [c EXCEPT !.pc = "returned",
                      !.result = <<[success |-> TRUE,
                                    message |-> <<"Connected successfully as", c.outcome>>]>>]

\* the click handler of the Test Connection button up to its await
RcTestClick ==
    /\ rc.op = "test" /\ rc.pc = "idle" /\ st.handler = "idle"
    /\ IF ~isNonEmptyString(settings.token)
       THEN /\ st' = [st EXCEPT !.handler = "done",
                                !.notices = Append(@, "configureToken")]
            /\ rc' = rc
       ELSE /\ st' = [st EXCEPT !.handler = "awaiting",
                                !.buttonDisabled = TRUE,
                                !.buttonText = "Testing..."]
            /\ rc' = [rc EXCEPT !.pc = "waiting", !.token = settings.token,
                                !.requests = <<"user">>]
    /\ UNCHANGED <<settings, vault, statusBarItems, run, ed, pk>>

\* the request settled: testConnection returns and the handler goes on with
\* its notice, or its catch block, and its finally block
RcTestResponse ==
    /\ rc.op = "test" /\ rc.pc = "waiting"
    /\ rc' = testSettled(rc)
    /\ st' = [st EXCEPT
                !.handler = "done",
                !.notices = Append(@, IF rc'.pc = "threw" THEN "failedThrown"
                                      ELSE IF rc'.result[1].success THEN "connected"
                                      ELSE "failed"),
                !.buttonText = "Test Connection",
                !.buttonDisabled = FALSE]
    /\ UNCHANGED <<settings, vault, statusBarItems, run, ed, pk>>

ClientInit ==
    /\ vault = [n \in MdNames |-> DocPlain]
    /\ statusBarItems = {}
    /\ run = [r \in Runs |-> IdleRun]
    /\ ed = EdIdle
    /\ pk = NoPicker
    /\ st = [NoStore EXCEPT !.pc = "tab"]
    /\ \/ rc \in ListCalls \cup SearchCalls
       \/ rc \in TestCalls
    /\ settings \in {[token |-> t, favProjects |-> <<>>] :
                        t \in IF rc.op = "test" THEN {<<"t">>, <<" ">>} ELSE {<<"t">>}}

ClientNext ==
    \/ RcListStart
    \/ RcListResponse
    \/ RcSearchStart
    \/ RcSearchResponse
    \/ RcTestClick
    \/ RcTestResponse

SpecClient == ClientInit /\ [][ClientNext]_vars

(***************************************************************************)
(* main.ts loadSettings, saveSettings; lib/settings.ts, the onChange        *)
(* handlers of the settings tab; lib/modal.ts, the star of a suggestion    *)
(***************************************************************************)
DefaultUrl == <<"https://gitlab.com">>

getDefaultSettings ==
    [token |-> <<>>, defaultLabels |-> <<>>, gitlabUrl |-> DefaultUrl, favProjects |-> <<>>]

\* what loadData() resolves to: null when no data.json exists, else the parsed
\* record
NoData == [present |-> FALSE, data |-> [k \in {} |-> <<>>]]
Saved(data) == [present |-> TRUE, data |-> data]

StoredRecords ==
    { NoData,
      Saved([k \in {} |-> <<>>]),
      Saved([token |-> <<"t">>]),
      Saved([token |-> <<"t">>, projectId |-> <<"4", "2">>]),
      Saved([token |-> <<"t">>, defaultLabels |-> <<"b">>, gitlabUrl |-> <<"h">>,
             favProjects |-> <<2>>]),
      Saved([token |-> <<"t">>, favProjects |-> <<1>>, theme |-> <<"d">>]) }

\* delete object[key]
DeleteKey(object, key) == [k \in DOMAIN object \ {key} |-> object[k]]

\* Object.assign({}, first, second)
ObjectAssign(first, second) ==
    [k \in DOMAIN first \cup DOMAIN second |->
        IF k \in DOMAIN second THEN second[k] ELSE first[k]]

loadSettings(savedData) ==
    IF ~savedData.present
    THEN ObjectAssign(getDefaultSettings, NoData.data)
    ELSE ObjectAssign(getDefaultSettings,
                      IF "projectId" \in DOMAIN savedData.data
                      THEN DeleteKey(savedData.data, "projectId")
                      ELSE savedData.data)

\* a handler that changes the settings and hands nothing to the host
saveSettings_Never(store, data) == store

\* saveSettings: saveData(this.settings) hands the record as it is now to the
\* host, which writes the records it was handed one after the other
saveSettings(store, data) ==
    [store EXCEPT !.pending = Append(@, data), !.saveCalls = @ + 1]

TokenInputs == {<<>>, <<"k">>}
LabelInputs == {<<>>, <<"b">>}
UrlInputs == {<<>>, <<"g">>}
StarIds == {1, 2}

StLoad ==
    /\ st.pc = "unloaded"
    /\ settings' = loadSettings(st.disk)
    /\ st' = [st EXCEPT !.pc = "tab"]
    /\ UNCHANGED <<vault, statusBarItems, run, ed, pk, rc>>

\* the store once a handler is through: its call of saveSettings made
AfterHandler(data) ==
    [saveSettings(st, data) EXCEPT !.mutations = @ + 1]

\* onChange of the token field
StTokenChange ==
    /\ st.pc = "tab" /\ st.mutations < MaxMutations
    /\ \E value \in TokenInputs :
        /\ settings' = [settings EXCEPT !.token = value]
        /\ st' = AfterHandler(settings')
    /\ UNCHANGED <<vault, statusBarItems, run, ed, pk, rc>>

\* onChange of the labels field
StLabelsChange ==
    /\ st.pc = "tab" /\ st.mutations < MaxMutations
    /\ \E value \in LabelInputs :
        /\ settings' = [settings EXCEPT !.defaultLabels = value]
        /\ st' = AfterHandler(settings')
    /\ UNCHANGED <<vault, statusBarItems, run, ed, pk, rc>>

\* onChange of the URL field: value || 'https://gitlab.com'
StUrlChange ==
    /\ st.pc = "tab" /\ st.mutations < MaxMutations
    /\ \E value \in UrlInputs :
        /\ settings' = [settings EXCEPT
                            !.gitlabUrl = IF value = <<>> THEN DefaultUrl ELSE value]
        /\ st' = AfterHandler(settings')
    /\ UNCHANGED <<vault, statusBarItems, run, ed, pk, rc>>

\* the click handler of a suggestion's star
StStarClick ==
    /\ st.pc = "tab" /\ st.mutations < MaxMutations
    /\ \E id \in StarIds :
        /\ settings' = [settings EXCEPT !.favProjects = ToggleFavorite(@, id)]
        /\ st' = AfterHandler(settings')
    /\ UNCHANGED <<vault, statusBarItems, run, ed, pk, rc>>

\* the host finished the oldest write it was handed
StSaveDone ==
    /\ st.pending # <<>>
    /\ st' = [st EXCEPT !.disk = Saved(Head(st.pending)), !.pending = Tail(@)]
    /\ UNCHANGED <<settings, vault, statusBarItems, run, ed, pk, rc>>

SettingsInit ==
    /\ settings = NoData.data
    /\ vault = [n \in MdNames |-> DocPlain]
    /\ statusBarItems = {}
    /\ run = [r \in Runs |-> IdleRun]
    /\ ed = EdIdle
    /\ pk = NoPicker
    /\ rc = NoClient
    /\ st \in {[NoStore EXCEPT !.pc = "unloaded", !.disk = d] : d \in StoredRecords}

SettingsNext ==
    \/ StLoad
    \/ StTokenChange
    \/ StLabelsChange
    \/ StUrlChange
    \/ StStarClick
    \/ StSaveDone

SpecSettings == SettingsInit /\ [][SettingsNext]_vars

(***************************************************************************)
(* transformMarkdownForGitLab applied to bounded texts                     *)
(***************************************************************************)
\* pieces a note's text is made of: white space, a word, tags, wikilinks
TextPieces ==
    { <<" ">>, <<NL>>, <<"a">>, <<"#">>, <<"#", "a">>,
      <<"[", "[", "a", "]", "]">>, <<"[", "[", " ", "]", "]">>, <<"[", "[">> }

\* what a note may start with: nothing, or a metadata block
TextHeads ==
    { <<>>, FmOpen \o Dash3 \o <<NL>>, FmOpen \o <<"k", ":">> \o FmClose, Dash3 \o Dash3,
      FmOpen \o <<"k">> \o Dash3 \o <<"v">> \o FmClose \o <<NL>> }

RECURSIVE TextBodies(_)
TextBodies(n) ==
    IF n = 0 THEN {<<>>}
    ELSE TextBodies(n - 1) \cup {b \o p : b \in TextBodies(n - 1), p \in TextPieces}

TransformerInit ==
    /\ settings = [token |-> <<>>, favProjects |-> <<>>]
    /\ vault = [n \in MdNames |-> DocPlain]
    /\ statusBarItems = {}
    /\ run = [r \in Runs |-> IdleRun]
    /\ pk = NoPicker
    /\ rc = NoClient
    /\ st = NoStore
    /\ ed \in {[EdIdle EXCEPT !.pc = "text", !.doc = h \o b] :
                  h \in TextHeads, b \in TextBodies(MaxPieces)}

ApplyTransformer ==
    /\ ed.pc = "text"
    /\ ed' = [ed EXCEPT !.out = transformMarkdownForGitLab(ed.doc),
                        !.pc = "transformed"]
    /\ UNCHANGED <<settings, vault, statusBarItems, run, pk, rc, st>>

TransformerNext == ApplyTransformer

SpecTransformer == TransformerInit /\ [][TransformerNext]_vars

(***************************************************************************)
(* Notions the properties are stated in, written apart from the            *)
(* definitions above                                                       *)
(***************************************************************************)
\* a text of white space only (or empty)
Blank(s) == \A i \in 1..Len(s) : s[i] \in {" ", "\n", "\t", "\r"}

\* a triggered run one of whose preconditions failed: token absent or blank,
\* no active document, or an active document that is no markdown file
PreconditionFails(r) ==
    /\ run[r].pc # "idle"
    /\ \/ Blank(run[r].token)
       \/ run[r].file.kind = "none"
       \/ /\ run[r].file.kind = "file"
          /\ run[r].file.name \notin MdNames

\* the run is inside createIssueWithProgress
InCreationPhase(r) == run[r].pc \in {"reading", "creating", "writing"}

\* notice n reports failure f
Reports(n, f) ==
    CASE f = "list" -> n.kind = "loadFailed"
      [] f = "read" -> n.kind = "error" /\ n.msg = "read"
      [] f = "create" -> n.kind \in {"error", "timeout"} /\
                         n.msg \in {"status", "network", "aborted", "timedOut", "missingUrl"}
      [] f = "write" -> n.kind = "error" /\ n.msg = "write"
      [] f = "exception" -> n.kind = "unexpected"
      [] OTHER -> FALSE

Reported(r) ==
    \A f \in run[r].failures :
        \E i \in 1..Len(run[r].notices) : Reports(run[r].notices[i], f)

\* the lines of a text
RECURSIVE SplitLines(_)
SplitLines(s) ==
    LET k == IndexOf(s, <<"\n">>, 1)
    IN  IF k = 0 THEN <<s>>
        ELSE <<SubSeq(s, 1, k - 1)>> \o SplitLines(SubSeq(s, k + 1, Len(s)))

MarkerLine == <<"-", "-", "-">>

\* the text starts with a marker line and a later line is the marker alone
HasMetadataBlock(text) ==
    LET L == SplitLines(text)
    IN  L[1] = MarkerLine /\ \E i \in 2..Len(L) : L[i] = MarkerLine

\* index of the line that closes the block
ClosingLine(text) ==
    LET L == SplitLines(text)
    IN  CHOOSE i \in 2..Len(L) :
            L[i] = MarkerLine /\ \A j \in 2..(i - 1) : L[j] # MarkerLine

BlockLines(text) == SubSeq(SplitLines(text), 2, ClosingLine(text) - 1)
AfterBlock(text) ==
    SubSeq(SplitLines(text), ClosingLine(text) + 1, Len(SplitLines(text)))

IsIssueKeyLine(l) ==
    SubSeq(l, 1, 17) = <<"g","i","t","l","a","b","_","i","s","s","u","e","_","u","r","l",":">>
OtherKeyLines(ls) == SelectSeq(ls, LAMBDA l : ~IsIssueKeyLine(l))

\* '---', 'gitlab_issue_url: "u"', '---', each ended by a newline
NewBlockText(u) ==
    <<"-", "-", "-", "\n">>
    \o <<"g","i","t","l","a","b","_","i","s","s","u","e","_","u","r","l",":">>
    \o <<" ", "\"">> \o u \o <<"\"", "\n">>
    \o <<"-", "-", "-", "\n">>

\* position of a letter in the alphabet, capital or small
LetterIndex(c) ==
    CASE c \in {"a", "A"} -> 1
      [] c \in {"b", "B"} -> 2
      [] c \in {"c", "C"} -> 3

\* name a is before name b in alphabetical order, or equal to it
RECURSIVE AlphaLeq(_, _)
AlphaLeq(a, b) ==
    IF a = <<>> THEN TRUE
    ELSE IF b = <<>> THEN FALSE
    ELSE IF LetterIndex(a[1]) # LetterIndex(b[1])
    THEN LetterIndex(a[1]) < LetterIndex(b[1])
    ELSE AlphaLeq(Tail(a), Tail(b))

\* l holds the elements of m, each as often as m does
IsPermutation(l, m) ==
    /\ Len(l) = Len(m)
    /\ \A x \in {l[i] : i \in 1..Len(l)} \cup {m[i] : i \in 1..Len(m)} :
        Cardinality({i \in 1..Len(l) : l[i] = x}) =
        Cardinality({i \in 1..Len(m) : m[i] = x})

\* the items of page p of a service that hold every required field
ExpectedItems(service, p) ==
    LET size == IF service.last = 0 \/ p < service.last THEN 100
                ELSE IF p = service.last THEN service.short ELSE 0
    IN  [page |-> p,
         raw |-> size,
         dropped |-> IF /\ p = service.defectPage /\ size > 0
                        /\ service.defect \in {"id", "name", "path_with_namespace", "web_url"}
                     THEN {1} ELSE {}]

\* the category of a thrown error
Category(error) ==
    CASE error.message[1] = "Invalid or expired GitLab Personal Access Token. Please check your token in plugin settings."
            -> "auth"
      [] error.message[1] = "Access denied. Please ensure your token has proper permissions."
            -> "permission"
      [] error.message[1] = "Resource not found. Please verify the URL and permissions."
            -> "notFound"
      [] error.message[1] = "GitLab server error. Please try again later."
            -> "server"
      [] error.name = "TypeError" \/ error.message[1] = "Network error: Unable to connect to GitLab. Please check your internet connection."
            -> "network"
      [] error.name = "TimeoutError" \/ error.message[1] = "Request timeout: GitLab API request took too long."
            -> "timeout"
      [] error.message[1] = "Unexpected response format from GitLab API"
            -> "validation"
      [] OTHER -> "other"

\* the category the cause of a failure calls for
CategoryOfCause(cause) ==
    CASE cause = "401" -> "auth"
      [] cause = "403" -> "permission"
      [] cause = "404" -> "notFound"
      [] cause \in {"500", "503"} -> "server"
      [] cause = "network" -> "network"
      [] cause = "timeout" -> "timeout"
      [] cause = "notArray" -> "validation"
      [] OTHER -> "any"

(***************************************************************************)
(* Properties                                                              *)
(***************************************************************************)
\* C1: a run writes the document only after its own create-issue call
\* returned success with a URL; a run whose create-issue call failed has
\* written nothing, and while no run has written the note is as it was.
C1_WriteOnlyAfterCreate ==
    /\ \A r \in Runs :
        /\ run[r].wrote => run[r].created /\ run[r].issueUrl # <<>>
        /\ "create" \in run[r].failures => ~run[r].wrote /\ run[r].pc = "done"
    /\ (\A r \in Runs : ~run[r].wrote) =>
            vault["note"] \in InitDocs /\ vault["blank"] = DocPlain

\* a run whose create-issue call failed has ended beside a run that wrote
C1_Witness ==
    \E r, q \in Runs :
        /\ run[r].pc = "done" /\ "create" \in run[r].failures /\ run[r].created
        /\ run[q].wrote /\ vault["note"] = run[q].updatedContent

\* C2: when the create-issue call succeeded and the document write failed,
\* the run's notification says the issue was created, holds the issue URL
\* and warns that the local update failed.
C2_WriteFailureStillReportsIssue ==
    \A r \in Runs :
        (run[r].pc = "done" /\ "write" \in run[r].failures) =>
            LET n == run[r].notices[Len(run[r].notices)]
            IN  n.kind = "successWarning" /\ n.url = run[r].issueUrl

\* C3 as claimed: every run emits exactly one notification over its
\* lifetime, never zero when it has ended and never two or more.
C3_ExactlyOneNotice ==
    \A r \in Runs :
        /\ Len(run[r].notices) <= 1
        /\ run[r].pc = "done" => Len(run[r].notices) = 1

\* C3 as amended: every run that has ended has emitted exactly one terminal
\* notification, preceded by exactly one load-failure warning when (and only
\* when) its project-list load failed; a run that has not ended has emitted
\* nothing but that warning.
C3_OneNoticePlusLoadWarning ==
    \A r \in Runs :
        LET n == run[r].notices
            w == IF "list" \in run[r].failures THEN 1 ELSE 0
        IN  /\ run[r].pc = "done" => Len(n) = 1 + w
            /\ run[r].pc # "done" => Len(n) = w
            /\ \A i \in 1..Len(n) : (n[i].kind = "loadFailed") <=> (i = 1 /\ w = 1)

\* a run whose load failed has ended with two notifications
C3_Witness ==
    \E r \in Runs :
        /\ run[r].pc = "done"
        /\ Len(run[r].notices) = 2
        /\ run[r].notices[2].kind \in {"cancelled", "success"}

\* C4: a run whose project list loaded and whose picker was closed without
\* a selection makes no create-issue request, leaves the document unwritten,
\* shows no progress indicator and emits only the cancellation notice.
C4_CancelDoesNothing ==
    \A r \in Runs :
        (/\ run[r].pc = "done"
         /\ run[r].opened
         /\ "list" \notin run[r].failures
         /\ run[r].selectedProject = 0) =>
            /\ run[r].requests = <<>>
            /\ "create" \notin run[r].calls
            /\ ~run[r].wrote
            /\ ~run[r].hadStatusBar
            /\ r \notin statusBarItems
            /\ run[r].notices = <<[kind |-> "cancelled", msg |-> "none", url |-> <<>>]>>

\* a run cancelled after a successful load, the note as it was
C4_Witness ==
    \E r \in Runs :
        /\ run[r].pc = "done" /\ run[r].opened /\ "list" \notin run[r].failures
        /\ run[r].selectedProject = 0
        /\ vault["note"] \in InitDocs

\* C5: a run whose precondition fails ends at once with one message: the
\* picker is never opened, no remote call is made, nothing is written.
C5_PreconditionFailureStops ==
    \A r \in Runs :
        PreconditionFails(r) =>
            /\ run[r].pc = "done"
            /\ Len(run[r].notices) = 1
            /\ run[r].notices[1].kind \in {"tokenRequired", "noActiveFile", "notMarkdown"}
            /\ ~run[r].opened
            /\ run[r].calls = {}
            /\ run[r].requests = <<>>
            /\ ~run[r].wrote
            /\ ~run[r].hadStatusBar

\* runs stopped by a blank token or by a file that is no markdown file
C5_Witness ==
    \E r \in Runs :
        /\ PreconditionFails(r)
        /\ \/ run[r].token = <<" ">>
           \/ run[r].file.name = "image"

\* C6: a run sends at most one create-issue request, and every request sent
\* has a non-blank title and a non-empty description.
C6_OneWellFormedRequest ==
    \A r \in Runs :
        /\ Len(run[r].requests) <= 1
        /\ \A i \in 1..Len(run[r].requests) :
            /\ ~Blank(run[r].requests[i].title)
            /\ run[r].requests[i].description # <<>>

\* a run whose request, for a note with nothing but a metadata block,
\* failed, and which has ended without a second request
C6_Witness ==
    \E r \in Runs :
        /\ run[r].pc = "done" /\ "create" \in run[r].failures
        /\ Len(run[r].requests) = 1
        /\ run[r].content = DocBlockOnly

C8_IndicatorRemoved ==
    statusBarItems = {r \in Runs : InCreationPhase(r)}

\* a run has ended after showing its indicator while another run shows its own
C8_Witness ==
    \E r, q \in Runs :
        /\ run[r].pc = "done" /\ run[r].hadStatusBar /\ "write" \in run[r].failures
        /\ InCreationPhase(q)

\* C9: for a text with no leading metadata block the editor's output is the
\* three lines of a new block followed by the text unchanged.
C9_NewBlockBeforeText ==
    (ed.pc = "edited" /\ ~HasMetadataBlock(ed.doc)) =>
        ed.out = NewBlockText(ed.url) \o ed.doc

\* C10: for a text with a metadata block the editor's output keeps the
\* block's lines of other keys, in order, and the text after the closing
\* marker; only lines of the issue key are added or changed.
C10_BlockPreserved ==
    (ed.pc = "edited" /\ HasMetadataBlock(ed.doc)) =>
        /\ HasMetadataBlock(ed.out)
        /\ OtherKeyLines(BlockLines(ed.out)) = OtherKeyLines(BlockLines(ed.doc))
        /\ AfterBlock(ed.out) = AfterBlock(ed.doc)

\* C11: applying the editor to its own output with the same URL gives that
\* output again, for every text and URL.
C11_EditorIdempotent ==
    ed.pc = "twice" => ed.out2 = ed.out

\* C12: whenever the editor is applied with a non-empty URL, its output
\* differs from its input, also when the input's block already holds the
\* issue key.
C12_OutputDiffers ==
    /\ (ed.pc \in {"edited", "twice"} /\ ed.url # <<>>) => ed.out # ed.doc
    /\ (ed.pc = "twice" /\ ed.url # <<>>) => ed.out2 # ed.out

C14_SingleFlight ==
    /\ pk.listCalls <= 1
    /\ pk.isOpen => ~pk.isLoading
    /\ TRUE \notin pk.opens

\* C15: a picker makes at most one List Projects call; once the load has
\* completed the picker is not loading and its cache is defined; after a
\* failed load the cache is the empty list, one warning was shown and no
\* further load is made.
C15_OneLoadThenReady ==
    /\ pk.listCalls <= 1
    /\ pk.loadResult # "none" =>
            /\ ~pk.isLoading
            /\ ~pk.cachedProjects.isNull
            /\ pk.listCalls = 1
    /\ pk.loadResult = "failed" => pk.cachedProjects.list = <<>> /\ pk.warnings = 1
    /\ pk.loadResult # "failed" => pk.warnings = 0

\* after a failed load selectProject was called again and the picker closed
C15_Witness ==
    /\ pk.loadResult = "failed"
    /\ Len(pk.promises) = 2
    /\ pk.closed /\ ~pk.isOpen

\* C16: no Search Projects call is made for a query that was followed by
\* another change of the query in less than 300 ms, and every call made is
\* for a non-empty term.
C16_OnlyLastQuerySearches ==
    \A c \in pk.searchCalls : c.key \notin pk.superseded /\ c.term # <<>>

\* C17: once the picker has closed no timer of it is pending, no Search
\* Projects call is started and no remote suggestion set is delivered.
C17_NothingAfterClose ==
    /\ (pk.closed /\ ~pk.isOpen) => pk.timers = {}
    /\ \A c \in pk.searchCalls : ~c.afterClose
    /\ \A d \in pk.delivered : ~d.afterClose

\* C18: a click on a star flips the membership of the clicked project's
\* identifier in the favorites and of no other, initiates one settings save,
\* and leaves the picker open, unresolved and with its selection as it was.
C18_StarClickOnlyToggles ==
    [][pk'.toggles # pk.toggles =>
        LET id == pk'.lastClick.id
            before == {settings.favProjects[i] : i \in 1..Len(settings.favProjects)}
            after == {settings'.favProjects[i] : i \in 1..Len(settings'.favProjects)}
        IN  /\ after = (IF id \in before THEN before \ {id} ELSE before \cup {id})
            /\ pk'.saves = pk.saves + 1
            /\ pk'.selectedProject = pk.selectedProject
            /\ pk'.promises = pk.promises
            /\ pk'.resolveCalls = pk.resolveCalls
            /\ pk'.isOpen /\ pk.isOpen
            /\ pk'.closed = pk.closed]_vars

\* the star of favorite 2 was clicked: 2 is no favorite any more, the picker
\* is open and its call unresolved
C18_Witness ==
    /\ pk.toggles > 0 /\ pk.saves > 0
    /\ pk.lastClick = [id |-> 2, before |-> <<2>>]
    /\ settings.favProjects = <<>>
    /\ pk.isOpen /\ pk.promises = <<(<<>>)>>

C20_FavoritesFirstAlphabetical ==
    LET l == pk.shown.list
    IN  /\ IsPermutation(l, pk.shown.input)
        /\ \A i, j \in 1..Len(l) :
            i < j =>
                /\ l[j].id \in pk.shown.favs => l[i].id \in pk.shown.favs
                /\ (l[i].id \in pk.shown.favs <=> l[j].id \in pk.shown.favs) =>
                        AlphaLeq(l[i].name, l[j].name)

\* a remote suggestion set of four projects whose first is the favorite "c"
C20_Witness ==
    /\ pk.shown.remote
    /\ Len(pk.shown.list) = 4
    /\ pk.shown.favs = {3}
    /\ pk.shown.list[1].name = <<"c">>

\* C21: a remote suggestion set holds exactly the identifiers of the cached
\* list and of the search result, each once, and for an identifier of the
\* cached list the entry is the cached project.
C21_MergedOncePerId ==
    pk.shown.remote =>
        LET l == pk.shown.list
            c == pk.shown.cached
            f == pk.shown.found
        IN  /\ {l[i].id : i \in 1..Len(l)} =
                   {c[i].id : i \in 1..Len(c)} \cup {f[i].id : i \in 1..Len(f)}
            /\ \A i, j \in 1..Len(l) : l[i].id = l[j].id => i = j
            /\ \A i \in 1..Len(l), k \in 1..Len(c) :
                   (l[i].id = c[k].id /\ \A h \in 1..(k - 1) : c[h].id # c[k].id)
                       => l[i] = c[k]

\* a search found project 2, which is cached, and project 4, which is not
C21_Witness ==
    /\ pk.shown.remote
    /\ \E i \in 1..Len(pk.shown.found) :
           pk.shown.found[i].id = 2 /\ pk.shown.found[i].description = "found"
    /\ \E i \in 1..Len(pk.shown.list) :
           pk.shown.list[i].id = 2 /\ pk.shown.list[i].description = "two"
    /\ \E i \in 1..Len(pk.shown.list) : pk.shown.list[i].id = 4

\* C22: whatever the service answers, a List Projects call makes at most 100
\* page requests, and a call that has made 100 without a failure returns
\* the items of those pages.
C22_AtMostHundredRequests ==
    rc.op = "list" =>
        /\ Len(rc.requests) <= 100
        /\ (/\ Len(rc.requests) = 100
            /\ rc.pc \in {"returned", "threw"}
            /\ rc.service.failPage = 0) =>
                rc.pc = "returned" /\ Len(rc.result) = 100

\* C23: with no next-page header, full pages 1..k-1 and a short page k, the
\* call requests pages 1..k in order and returns the valid items of all k
\* pages in page order; an item without a required field is dropped and
\* does not end the paging.
C23_AllPagesInOrder ==
    (/\ rc.op = "list"
     /\ rc.pc \in {"returned", "threw"}
     /\ rc.token = <<"t">>
     /\ rc.service.header = "none"
     /\ rc.service.failPage = 0
     /\ rc.service.last \in 1..100) =>
        /\ rc.pc = "returned"
        /\ rc.requests = [i \in 1..rc.service.last |-> i]
        /\ rc.result = [i \in 1..rc.service.last |-> ExpectedItems(rc.service, i)]

KnownKeys == {"token", "defaultLabels", "gitlabUrl", "favProjects"}

\* C25: a remote search never throws: a blank query returns the empty list
\* with no request sent, every failure of the request (a status that is not
\* 2xx, a transport failure, a timeout, an unparsable body, a body that is no
\* array) returns the empty list, and at most one request is sent
C25_SearchNeverThrows ==
    rc.op = "search" =>
        /\ rc.pc # "threw"
        /\ Len(rc.requests) <= 1
        /\ (Trim(rc.query) = <<>>) => rc.requests = <<>>
        /\ rc.pc = "returned" /\ (Trim(rc.query) = <<>> \/ rc.outcome # "ok")
              => rc.result = <<>>

C25_Witness ==
    /\ rc.op = "search" /\ rc.pc = "returned"
    /\ rc.outcome = "timeout" /\ rc.requests = <<"search">>
    /\ rc.result = <<>>

\* C26: Test Connection never throws: it returns success only for a 2xx
\* response, every other outcome of the request is returned as a failure
\* result with a message, and once the handler is through the button is
\* enabled again
C26_TestReturnsResult ==
    rc.op = "test" =>
        /\ rc.pc # "threw"
        /\ rc.pc = "returned" =>
              /\ rc.result[1].success => ~(rc.outcome \in FailureCauses)
              /\ rc.outcome \in FailureCauses =>
                    ~rc.result[1].success /\ rc.result[1].message # <<>>
        /\ st.handler = "done" =>
              /\ ~st.buttonDisabled
              /\ Len(st.notices) = 1
        /\ st.buttonDisabled => st.handler = "awaiting"

C26_Witness ==
    /\ rc.op = "test" /\ rc.pc = "returned"
    /\ rc.outcome = "network"
    /\ ~rc.result[1].success
    /\ st.handler = "done" /\ st.notices = <<"failed">> /\ ~st.buttonDisabled

\* C27: once the settings are loaded their keys are exactly token,
\* defaultLabels, gitlabUrl and favProjects: projectId and every unknown field
\* of the stored record are gone, the stored values of the known keys are
\* kept, and a known key the stored record lacks has its default value
C27_LoadedKeySet ==
    st.pc = "tab" /\ st.mutations = 0 =>
        /\ DOMAIN settings = KnownKeys
        /\ \A k \in KnownKeys :
              settings[k] = IF st.disk.present /\ k \in DOMAIN st.disk.data
                            THEN st.disk.data[k]
                            ELSE getDefaultSettings[k]

\* C28: every handler that changes the settings calls saveSettings, and when
\* no handed record is left to write, the stored record equals the settings
C28_SavedAfterEveryMutation ==
    st.pc = "tab" =>
        /\ st.saveCalls = st.mutations
        /\ st.mutations > 0 /\ st.pending = <<>> => st.disk = Saved(settings)

C28_Witness ==
    /\ st.pc = "tab" /\ st.mutations = 2 /\ st.pending = <<>>
    /\ st.disk = Saved(settings)
    /\ settings.favProjects = <<2>>
    /\ settings.token = <<"k">>

\* C29: the transformer's output is never empty and neither starts nor ends
\* with white space; when nothing is left of the text after the metadata
\* block is stripped, links and tags are rewritten and the text is trimmed,
\* the output is the placeholder sentence
C29_OutputTrimmedNonEmpty ==
    ed.pc = "transformed" =>
        /\ ed.out # <<>>
        /\ ~IsSpace(ed.out[1])
        /\ ~IsSpace(ed.out[Len(ed.out)])
        /\ transformMarkdownForGitLab_NoPlaceholder(ed.doc) = <<>>
              => ed.out = EmptyContentText

\* a note with a metadata block, an empty wikilink and white space
C29_Witness ==
    /\ ed.pc = "transformed"
    /\ StartsWithAt(ed.doc, Dash3, 1)
    /\ \E i \in 1..Len(ed.doc) : ed.doc[i] = "["
    /\ ed.out = EmptyContentText

\* C30: a write-back loses nothing: every line that came into the document
\* after the run read it (typed by the user, or written back by another run)
\* is still in the document after the run's write
C30_NoLostUpdate ==
    [][\A r \in Runs :
          (run[r].pc = "writing" /\ run'[r].wrote) =>
              LET name == run[r].file.name
                  before == SplitLines(vault[name])
                  read == SplitLines(run[r].content)
                  after == SplitLines(vault'[name])
              IN  \A i \in 1..Len(before) :
                      (\A j \in 1..Len(read) : read[j] # before[i])
                          => \E k \in 1..Len(after) : after[k] = before[i]]_vars

\* the step that may follow each step of a run
StepOrder ==
    {<<"idle", "loading">>, <<"idle", "done">>,
     <<"loading", "picker">>,
     <<"picker", "picker">>, <<"picker", "reading">>, <<"picker", "done">>,
     <<"reading", "creating">>, <<"reading", "done">>,
     <<"creating", "writing">>, <<"creating", "done">>,
     <<"writing", "done">>}

\* what a run has behind it at each step
StepsBehind(rr) ==
    /\ rr.pc \in {"picker", "reading", "creating", "writing"} =>
            "list" \in rr.calls /\ isNonEmptyString(rr.token) /\ rr.file.kind = "file"
    /\ rr.pc \in {"reading", "creating", "writing"} =>
            rr.opened /\ rr.selectedProject # 0
    /\ rr.requests # <<>> =>
            /\ rr.opened /\ rr.selectedProject # 0 /\ ~rr.cachedProjects.isNull
            /\ ~Blank(rr.file.basename)
            /\ rr.requests[1].project = rr.selectedProject
    /\ rr.pc = "writing" \/ rr.wrote =>
            rr.requests # <<>> /\ rr.created /\ rr.issueUrl # <<>>
    /\ (\E i \in 1..Len(rr.notices) : rr.notices[i].kind = "success") =>
            rr.wrote /\ rr.pc = "done"

\* C31: the steps of a run happen in order, each after the result of the
\* one before: validation, project listing, the picker resolving with a
\* project, reading and title check, the create request, the write, the last
\* notification; no create request before the picker resolved with a project
\* and no write before the response to the create request
C31_StepsInOrder ==
    /\ [](\A r \in Runs : StepsBehind(run[r]))
    /\ [][\A r \in Runs :
            run'[r] # run[r] => <<run[r].pc, run'[r].pc>> \in StepOrder]_vars

\* C32: what a successful run writes is the editor's output for the text as
\* read and the returned URL; the transformer's output is the description of
\* the request and no part of what is written: the tag of the note is not
\* wrapped in the document
C32_WritesUntransformed ==
    [][\A r \in Runs :
          (run'[r].wrote /\ ~run[r].wrote) =>
              LET written == vault'[run[r].file.name]
              IN  /\ written = buildUpdatedFrontmatter(run[r].content, run[r].issueUrl)
                  /\ run[r].requests[1].description =
                         transformMarkdownForGitLab(run[r].content)
                  /\ \A i \in 1..Len(written) : written[i] # BACKTICK]_vars

\* the note with a tag, written back with its tag as it was, after a request
\* whose description has the tag wrapped
C32_Witness ==
    \E r \in Runs :
        /\ run[r].wrote /\ run[r].content = DocPlain
        /\ vault["note"] = FmOpen \o IssueLine(run[r].issueUrl) \o FmClose \o <<NL>> \o DocPlain
        /\ run[r].requests[1].description = <<BACKTICK>> \o DocPlain \o <<BACKTICK>>

\* C33: the editor takes a text to have a metadata block exactly when it
\* starts with a marker line and a later line is the marker alone, and takes
\* the block to end at the first such line: a line that only begins with the
\* marker closes nothing, and a block with no line between its markers is a
\* block
C33_DetectsBlock ==
    ed.pc = "edited" =>
        LET m == frontmatterMatch(ed.doc)
        IN  /\ (m # 0) <=> HasMetadataBlock(ed.doc)
            /\ m # 0 =>
                  SubSeq(ed.doc, 1, m - 1) = Join(<<MarkerLine>> \o BlockLines(ed.doc))

\* C34: the transformer removes a metadata block only from a text that
\* starts with the marker, and removes exactly through the next line that is
\* the marker alone and its newline: a marker inside a line of the block does
\* not end the removal and the text after the closing line stays
C34_StripsWholeBlock ==
    ed.pc = "transformed" =>
        LET L == SplitLines(ed.doc)
            closing == {i \in 2..Len(L) : L[i] = MarkerLine}
            after == SubSeq(L, Min(closing) + 1, Len(L))
        IN  /\ ~StartsWithAt(ed.doc, Dash3, 1) => stripFrontmatter(ed.doc) = ed.doc
            /\ StartsWithAt(ed.doc, Dash3, 1) /\ closing # {} =>
                  stripFrontmatter(ed.doc) = Join(after)

\* C35: whether the key goes into an existing block or a new block is made
\* follows the editor's own detection on the text, whatever the metadata
\* index reports: when the index reports no block and the text has one, the
\* key is put inside that block and no second block in front of it
C35_TextDecides ==
    ed.pc = "edited" =>
        /\ frontmatterMatch(ed.doc) = 0 => ed.out = NewBlockText(ed.url) \o ed.doc
        /\ (~ed.hasFrontmatter /\ HasMetadataBlock(ed.doc)) =>
              /\ ed.out # NewBlockText(ed.url) \o ed.doc
              /\ HasMetadataBlock(ed.out)
              /\ \E i \in 1..Len(BlockLines(ed.out)) :
                     EndsWith(BlockLines(ed.out)[i], IssueLine(ed.url))
              /\ AfterBlock(ed.out) = AfterBlock(ed.doc)

\* C36: overlapping runs stay self-consistent: a run's create request names
\* the project chosen in its own picker, and the URL of its success notice and
\* of its write is the web_url its own create request was answered with
C36_RunsSelfConsistent ==
    /\ [](\A r \in Runs :
            /\ \A i \in 1..Len(run[r].requests) :
                  run[r].requests[i].project = run[r].selectedProject
            /\ run[r].pc = "writing" \/ run[r].wrote =>
                  /\ run[r].issueUrl = IssueUrl(r)
                  /\ run[r].updatedContent =
                         buildUpdatedFrontmatter(run[r].content, IssueUrl(r))
            /\ \A i \in 1..Len(run[r].notices) :
                  run[r].notices[i].kind = "success" => run[r].notices[i].url = IssueUrl(r))
    /\ [][\A r \in Runs :
            /\ run[r].selectedProject # 0 =>
                  run'[r].selectedProject = run[r].selectedProject
            /\ (run'[r].wrote /\ ~run[r].wrote) =>
                  vault'[run[r].file.name] = run[r].updatedContent]_vars

\* two runs that chose different projects and have both written
C36_Witness ==
    \E r, q \in Runs :
        /\ run[r].wrote /\ run[q].wrote
        /\ run[r].requests[1].project = 42 /\ run[q].requests[1].project = 7
        /\ run[r].notices[1].url # run[q].notices[1].url

C31_Witness ==
    \E r \in Runs :
        /\ run[r].pc = "done" /\ run[r].wrote
        /\ run[r].calls = {"list", "search", "create"}
        /\ Len(run[r].notices) = 1 /\ run[r].notices[1].kind = "success"

=============================================================================
